---------------------------- MODULE Spec2Model ----------------------------
(***************************************************************************)
(* Model of backend/app/services/dictionary_service.py: the DictionaryService *)
(* that normalizes company and university names (alias index, exact and     *)
(* fuzzy matching with an lru_cache memo, lock-guarded mutations, save     *)
(* with backup, rollback).                                                 *)
(*                                                                         *)
(* A string is a sequence of one-character strings.  A Dictionary (a Python *)
(* dict, insertion ordered) is a sequence of entries with distinct          *)
(* standards.  An AliasIndex (a Python dict) is a sequence of key/standard  *)
(* pairs with distinct keys.                                                *)
(***************************************************************************)
EXTENDS Integers, Sequences, FiniteSets, TLC

(***************************************************************************)
(* Bounds of the model and constants of the program.                        *)
(***************************************************************************)
MaxOps == 2
MaxRollbacks == 1
MaxThreadOps == 2
MemoSize == 1
MaxFailures == 1
MaxClock == 2
TicksPerSecond == 1
MaxReads == 1
MAX_BACKUPS == 10
DefaultThreshold == 80

(***************************************************************************)
(* The strings of the model.                                                *)
(***************************************************************************)
s_empty == << >>
s_b == <<"b">>
s_ab == <<"a", "b">>
s_Ab == <<"A", "b">>
s_AB == <<"A", "B">>
s_aba == <<"a", "b", "a">>
s_a == <<"a">>
s_blank == <<" ">>

Types == {"company", "university"}

JsonKey(t) == IF t = "company" THEN "companies" ELSE "universities"

Thresholds == {60, DefaultThreshold}

(***************************************************************************)
(* str.lower()                                                              *)
(***************************************************************************)
LowerChar(c) == IF c = "A" THEN "a" ELSE IF c = "B" THEN "b" ELSE c

RECURSIVE Lower(_)
Lower(s) == IF s = << >> THEN << >> ELSE <<LowerChar(Head(s))>> \o Lower(Tail(s))

(***************************************************************************)
(* rapidfuzz fuzz.ratio(a, b) = 100 * 2 * LCS(a, b) / (len(a) + len(b)),     *)
(* the normalized Indel similarity.  Scores are compared exactly, by cross  *)
(* multiplication; Score is the score in hundredths, rounded down.          *)
(***************************************************************************)
Max2(x, y) == IF x >= y THEN x ELSE y

RECURSIVE LCS(_, _)
LCS(a, b) ==
    IF a = << >> \/ b = << >> THEN 0
    ELSE IF Head(a) = Head(b) THEN 1 + LCS(Tail(a), Tail(b))
    ELSE Max2(LCS(Tail(a), b), LCS(a, Tail(b)))

Score(a, b) ==
    IF Len(a) + Len(b) = 0 THEN 10000
    ELSE (20000 * LCS(a, b)) \div (Len(a) + Len(b))

\* score(a, k1) > score(a, k2)
Better(a, k1, k2) ==
    LCS(a, k1) * (Len(a) + Len(k2)) > LCS(a, k2) * (Len(a) + Len(k1))

\* score(a, k) >= score_cutoff
AtLeast(a, k, cutoff) ==
    IF Len(a) + Len(k) = 0 THEN 100 >= cutoff
    ELSE 200 * LCS(a, k) >= cutoff * (Len(a) + Len(k))

(***************************************************************************)
(* process.extractOne(query, choices, scorer=fuzz.ratio, score_cutoff):     *)
(* the position of the first choice of maximal score, when that score is at *)
(* least the cutoff; 0 (None) otherwise.                                    *)
(***************************************************************************)
ExtractOne(query, choices, cutoff) ==
    LET best == {i \in 1..Len(choices) :
                    /\ AtLeast(query, choices[i], cutoff)
                    /\ \A j \in 1..Len(choices) :
                          /\ ~Better(query, choices[j], choices[i])
                          /\ j < i => Better(query, choices[i], choices[j])}
    IN  IF best = {} THEN 0 ELSE CHOOSE i \in best : TRUE

(***************************************************************************)
(* Python dict operations on an AliasIndex.                                 *)
(***************************************************************************)
IndexKeys(idx) == [i \in 1..Len(idx) |-> idx[i].key]

IndexHas(idx, k) == \E i \in 1..Len(idx) : idx[i].key = k

IndexGet(idx, k) == idx[CHOOSE i \in 1..Len(idx) : idx[i].key = k].standard

\* index[k] = v : an existing key keeps its position
IndexPut(idx, k, v) ==
    IF IndexHas(idx, k)
    THEN [i \in 1..Len(idx) |-> IF idx[i].key = k THEN [key |-> k, standard |-> v] ELSE idx[i]]
    ELSE Append(idx, [key |-> k, standard |-> v])

(***************************************************************************)
(* Python dict operations on a Dictionary.                                  *)
(***************************************************************************)
DictHas(d, s) == \E i \in 1..Len(d) : d[i].standard = s

DictPos(d, s) == CHOOSE i \in 1..Len(d) : d[i].standard = s

DictGet(d, s) == d[DictPos(d, s)]

Standards(d) == {d[i].standard : i \in 1..Len(d)}

SeqHas(seq, x) == \E i \in 1..Len(seq) : seq[i] = x

(***************************************************************************)
(* _build_index                                                             *)
(***************************************************************************)
RECURSIVE PutAliases(_, _, _)
PutAliases(idx, aliases, standard) ==
    IF aliases = << >> THEN idx
    ELSE PutAliases(IndexPut(idx, Lower(Head(aliases)), standard), Tail(aliases), standard)

\* a _build_index that keys a standard to its lowercased form
RECURSIVE BuildIntoLowered(_, _)
BuildIntoLowered(idx, d) ==
    IF d = << >> THEN idx
    ELSE BuildIntoLowered(PutAliases(IndexPut(idx, Lower(Head(d).standard),
                                              Lower(Head(d).standard)),
                                     Head(d).aliases, Head(d).standard),
                          Tail(d))

RECURSIVE BuildInto(_, _)
BuildInto(idx, d) ==
    IF d = << >> THEN idx
    ELSE BuildInto(PutAliases(IndexPut(idx, Lower(Head(d).standard), Head(d).standard),
                              Head(d).aliases, Head(d).standard),
                   Tail(d))

BuildIndex(d) == BuildInto(<< >>, d)

(***************************************************************************)
(* normalize_company / normalize_university without the memo: what a call   *)
(* computes against one index.                                              *)
(***************************************************************************)
NoMatch == [found |-> FALSE, standard |-> << >>, score |-> 0]

\* the body of _fuzzy_match_cached: keys is list(index.keys()), idx is index
FuzzyMatch(keys, idx, query, threshold) ==
    LET p == ExtractOne(query, keys, threshold)
    IN  IF p = 0 THEN NoMatch
        ELSE [found |-> TRUE, standard |-> IndexGet(idx, keys[p]),
              score |-> Score(query, keys[p])]

\* "if standard:" is false for None and for the empty string
Truthy(m) == m.found /\ m.standard # << >>

FuzzyReturn(m, name) == IF Truthy(m) THEN m.standard ELSE name

NormalizeOn(idx, name, threshold) ==
    IF name = << >> THEN << >>
    ELSE IF IndexHas(idx, Lower(name)) THEN IndexGet(idx, Lower(name))
    ELSE FuzzyReturn(FuzzyMatch(IndexKeys(idx), idx, Lower(name), threshold), name)

(***************************************************************************)
(* The lru_cache of _fuzzy_match_cached: the entries, least recently used   *)
(* first.  A full cache drops its first entry to take a new one.            *)
(***************************************************************************)
EmptyMemo == << >>

\* a cache_clear that drops nothing
CacheKept(m) == m

\* self._fuzzy_match_cached.cache_clear()
CacheClear(m) == EmptyMemo

MemoKey(query, t, threshold) == <<query, t, threshold>>

MemoHas(m, k) == \E i \in 1..Len(m) : m[i].key = k

MemoGet(m, k) == m[CHOOSE i \in 1..Len(m) : m[i].key = k].value

MemoWithout(m, k) == SelectSeq(m, LAMBDA e : e.key # k)

\* a hit makes the entry the most recently used
MemoTouch(m, k) == Append(MemoWithout(m, k), [key |-> k, value |-> MemoGet(m, k)])

\* the result of a miss is stored
MemoPut(m, k, v) ==
    LET rest == MemoWithout(m, k)
        kept == IF Len(rest) >= MemoSize THEN SubSeq(rest, Len(rest) - MemoSize + 2, Len(rest))
                ELSE rest
    IN  Append(kept, [key |-> k, value |-> v])

(***************************************************************************)
(* Files.  The text of a file is either a JSON object, given by its         *)
(* members, or text that does not parse (a file cut short by a copy that    *)
(* has opened it for writing).                                              *)
(***************************************************************************)
Truncated == [syntax |-> "bad", members |-> << >>]

\* JSON text whose top level is not an object (a list, say)
NotAnObject == [syntax |-> "array", members |-> << >>]

\* json.dump({key: data}, f)
Serialize(key, data) ==
    [syntax |-> "ok", members |-> << [key |-> key, isObject |-> TRUE, value |-> data] >>]

NoFile == [exists |-> FALSE, text |-> Truncated, mtime |-> 0]

\* hasData: the pickled object has the key 'data'
NoCache == [exists |-> FALSE, version |-> "none", hasData |-> FALSE, data |-> << >>,
            mtime |-> 0]

CACHE_VERSION == "v2"

\* a missing file that is an error, as the docstring of _load_dictionary has it
MissingFileRaises == [ok |-> FALSE, data |-> << >>, error |-> "FileNotFoundError"]

\* if not file_path.exists(): return {}
MissingFile == [ok |-> TRUE, data |-> << >>, error |-> "none"]

\* _load_dictionary
LoadDictionary(file, key) ==
    IF ~file.exists THEN MissingFile
    ELSE IF file.text.syntax = "bad"
         THEN [ok |-> FALSE, data |-> << >>, error |-> "JSONDecodeError"]
    ELSE IF file.text.syntax # "ok"
         THEN [ok |-> FALSE, data |-> << >>, error |-> "AttributeError"]
    ELSE LET ms == file.text.members
             hit == {i \in 1..Len(ms) : ms[i].key = key}
         IN  IF hit = {} THEN [ok |-> TRUE, data |-> << >>, error |-> "none"]
             ELSE LET m == ms[CHOOSE i \in hit : TRUE]
                  IN  IF ~m.isObject
                      THEN [ok |-> FALSE, data |-> << >>, error |-> "ValueError"]
                      ELSE [ok |-> TRUE, data |-> m.value, error |-> "none"]

\* a validity test that accepts a snapshot of any schema version
CacheAnyVersion(dk) ==
    /\ dk.cache.exists
    /\ dk.file.exists
    /\ dk.cache.mtime > dk.file.mtime
    /\ dk.cache.version \in {CACHE_VERSION, "v1"}
    /\ dk.cache.hasData

\* a validity test that accepts a snapshot as old as the file
CacheNotOlder(dk) ==
    /\ dk.cache.exists
    /\ dk.file.exists
    /\ dk.cache.mtime >= dk.file.mtime
    /\ dk.cache.version = CACHE_VERSION
    /\ dk.cache.hasData

\* the snapshot is read and returned: any exception on the way (gzip,
\* pickle, cached.get, cached['data']) is caught and makes it a miss
CacheValid(dk) ==
    /\ dk.cache.exists
    /\ dk.file.exists
    /\ dk.cache.mtime > dk.file.mtime
    /\ dk.cache.version = CACHE_VERSION
    /\ dk.cache.hasData

\* _load_dictionary_with_cache: the result and the directory it leaves
LoadDictionaryWithCache(dk, key, now) ==
    IF CacheValid(dk)
    THEN [ok |-> TRUE, data |-> dk.cache.data, error |-> "none", disk |-> dk]
    ELSE LET r == LoadDictionary(dk.file, key)
         IN  IF ~r.ok THEN [ok |-> FALSE, data |-> << >>, error |-> r.error, disk |-> dk]
             ELSE [ok |-> TRUE, data |-> r.data, error |-> "none",
                   disk |-> [dk EXCEPT !.cache =
                       [exists |-> TRUE, version |-> CACHE_VERSION, hasData |-> TRUE,
                        data |-> r.data, mtime |-> now]]]

(***************************************************************************)
(* _save_dictionary, statement by statement.  dk is the directory as far as *)
(* one file is concerned: the file, its temporary file, its cache snapshot  *)
(* and its backups.  A backup timestamp has second resolution.              *)
(***************************************************************************)
NoBackup == -1

SecondOf(now) == now \div TicksPerSecond

\* a lookup that takes the oldest backup, whatever the timestamp asked for
BackupOldest(dk, ts) == CHOOSE b \in dk.backups : \A c \in dk.backups : b.ts <= c.ts

\* the backup file of timestamp ts
BackupAt(dk, ts) == CHOOSE b \in dk.backups : b.ts = ts

HasBackup(dk, ts) == \E b \in dk.backups : b.ts = ts

\* a pruning that unlinks backups[MAX_BACKUPS:]: the oldest names stay
PruneNewest(bs) ==
    IF Cardinality(bs) > MAX_BACKUPS
    THEN {b \in bs : Cardinality({c \in bs : c.ts < b.ts}) < MAX_BACKUPS}
    ELSE bs

\* backups[:-MAX_BACKUPS] are unlinked: the MAX_BACKUPS newest names stay
Prune(bs) ==
    IF Cardinality(bs) > MAX_BACKUPS
    THEN {b \in bs : Cardinality({c \in bs : c.ts > b.ts}) < MAX_BACKUPS}
    ELSE bs

\* a save that makes no backup
SaveBackupSkipped(dk, now) == dk

\* shutil.copy2(file_path, backup_path), then the pruning
SaveBackup(dk, now) ==
    IF dk.file.exists
    THEN [dk EXCEPT !.backups =
            Prune({b \in dk.backups : b.ts # SecondOf(now)}
                  \cup {[ts |-> SecondOf(now), text |-> dk.file.text,
                         mtime |-> dk.file.mtime]})]
    ELSE dk

BackupPath(dk, now) == IF dk.file.exists THEN SecondOf(now) ELSE NoBackup

\* open(temp_path, 'w'); json.dump(...)
WriteTemp(dk, key, data) == [dk EXCEPT !.tmp = [exists |-> TRUE, text |-> Serialize(key, data)]]

\* the same, failing after the file was opened
WriteTempFails(dk) == [dk EXCEPT !.tmp = [exists |-> TRUE, text |-> Truncated]]

NoTemp == [exists |-> FALSE, text |-> Truncated]

\* a replace that removes the temporary file and leaves the target
ReplaceSkipped(dk, now) == [dk EXCEPT !.tmp = NoTemp]

\* temp_path.replace(file_path)
ReplaceTarget(dk, now) ==
    [dk EXCEPT !.file = [exists |-> TRUE, text |-> dk.tmp.text, mtime |-> now],
               !.tmp = NoTemp]

\* a save that leaves the cache snapshot where it is
UnlinkSkipped(dk) == dk

\* cache_path.unlink()
UnlinkCache(dk) == [dk EXCEPT !.cache = NoCache]

\* shutil.copy2(backup_path, file_path) opens the target for writing ...
CopyOpen(dk, now) == [dk EXCEPT !.file = [exists |-> TRUE, text |-> Truncated, mtime |-> now]]

\* a copy that removes its source: the backup is moved onto the live file
MoveData(dk, ts) ==
    [dk EXCEPT !.file = [exists |-> TRUE, text |-> BackupAt(dk, ts).text,
                         mtime |-> BackupAt(dk, ts).mtime],
               !.backups = {b \in dk.backups : b.ts # ts}]

\* ... then copies the bytes and the modification time
CopyData(dk, ts) ==
    [dk EXCEPT !.file = [exists |-> TRUE, text |-> BackupAt(dk, ts).text,
                         mtime |-> BackupAt(dk, ts).mtime]]

\* an except branch that restores nothing
RestoreSkipped(dk, bts, now) == dk

\* the except branch of _save_dictionary
RestoreBackup(dk, bts, now) ==
    IF bts # NoBackup /\ HasBackup(dk, bts) THEN CopyData(CopyOpen(dk, now), bts) ELSE dk

FailPoints == {"none", "temp", "replace", "unlink"}

\* the whole of _save_dictionary; failAt is the statement that raises
SaveDictionary(dk, key, data, now, failAt) ==
    LET bts == BackupPath(dk, now)
        a == SaveBackup(dk, now)
        b == WriteTemp(a, key, data)
        c == ReplaceTarget(b, now)
    IN  CASE failAt = "temp" ->
               [disk |-> RestoreBackup(WriteTempFails(a), bts, now), raised |-> TRUE, bts |-> bts]
          [] failAt = "replace" ->
               [disk |-> RestoreBackup(b, bts, now), raised |-> TRUE, bts |-> bts]
          [] failAt = "unlink" /\ c.cache.exists ->
               [disk |-> RestoreBackup(c, bts, now), raised |-> TRUE, bts |-> bts]
          [] OTHER ->
               [disk |-> UnlinkCache(c), raised |-> FALSE, bts |-> bts]

(***************************************************************************)
(* The statements of add_company_mapping / add_university_mapping that      *)
(* change the Dictionary.                                                   *)
(***************************************************************************)
\* if standard not in self.companies: self.companies[standard] = {...}
AddEntry(d, standard) ==
    IF DictHas(d, standard) THEN d
    ELSE Append(d, [standard |-> standard, aliases |-> <<standard>>])

\* an append that is skipped when the list has a case variant of the alias
AppendUnlessVariant(d, standard, alias) ==
    LET p == DictPos(d, standard)
    IN  IF \E j \in 1..Len(d[p].aliases) : Lower(d[p].aliases[j]) = Lower(alias) THEN d
        ELSE [d EXCEPT ![p].aliases = Append(@, alias)]

\* if alias not in aliases: aliases.append(alias)
AppendAlias(d, standard, alias) ==
    LET p == DictPos(d, standard)
    IN  IF SeqHas(d[p].aliases, alias) THEN d
        ELSE [d EXCEPT ![p].aliases = Append(@, alias)]

\* self.company_index[alias.lower()] = standard
AddToIndex(idx, alias, standard) == IndexPut(idx, Lower(alias), standard)

(***************************************************************************)
(* The inputs of the model.                                                 *)
(***************************************************************************)
Entry(standard, aliases) == [standard |-> standard, aliases |-> aliases]

D_one == << Entry(s_aba, <<s_aba>>) >>
D_coll == << Entry(s_Ab, <<s_Ab>>), Entry(s_aba, <<s_aba, s_AB>>) >>
D_blank == << Entry(s_empty, <<s_b>>), Entry(s_AB, << >>) >>
D_far == << Entry(s_b, <<s_b>>) >>

\* the files the service may find when it starts
InitDicts(t) == IF t = "company" THEN {D_one, D_coll} ELSE {D_one}
InitMissing(t) == t = "university"

\* the arguments of the calls
ReplaceDicts(t) == IF t = "company" THEN {D_coll, D_blank} ELSE {D_coll, D_far}
AddPairs(t) ==
    IF t = "company" THEN {<<s_b, s_ab>>, <<s_AB, s_Ab>>} ELSE {<<s_b, s_ab>>}
CallNames == {s_ab, s_b}

\* the names normalize is asked about in the properties
Queries == {s_empty, s_b, s_ab, s_Ab, s_AB, s_aba}

Threads == {"w1", "w2"}

(***************************************************************************)
(* The state: the service's fields, the dictionary directory, the clock,    *)
(* the lock and the threads' positions.                                     *)
(***************************************************************************)
VARIABLES
    dict,       \* self.companies, self.universities
    index,      \* self.company_index, self.university_index
    memo,       \* the lru_cache of _fuzzy_match_cached
    disk,       \* per file: the file, its .tmp, its cache snapshot, its backups
    clock,      \* the time, in ticks
    lock,       \* self._lock: "free" or the thread that holds it
    th,         \* the mutating threads: position and locals
    rd,         \* the thread that calls normalize: position and locals
    hist        \* what the last completed operation was and found (history)

vars == <<dict, index, memo, disk, clock, lock, th, rd, hist>>

\* the directory after the file was written and before the service starts
FreshDisk(file) == [file |-> file, tmp |-> NoTemp, cache |-> NoCache, backups |-> {}]

InitFiles(t) ==
    (IF InitMissing(t) THEN {NoFile} ELSE {})
    \cup {[exists |-> TRUE, text |-> Serialize(JsonKey(t), d), mtime |-> 0] : d \in InitDicts(t)}

IdleThread == [pc |-> "idle", kind |-> "none", t |-> "company", alias |-> << >>,
               standard |-> << >>, data |-> << >>, ts |-> NoBackup, bts |-> NoBackup,
               created |-> FALSE]

IdleReader == [pc |-> "idle", t |-> "company", name |-> << >>, threshold |-> DefaultThreshold,
               keys |-> << >>, live |-> FALSE, held |-> << >>,
               result |-> << >>, fromMemo |-> FALSE, consistent |-> TRUE, seen |-> {},
               op |-> "normalize", size |-> 0, pos |-> 0, obs |-> << >>,
               stats |-> [standards |-> 0, aliases |-> 0]]

NoHist == [kind |-> "init", t |-> "company", ok |-> TRUE, alias |-> << >>, standard |-> << >>,
           isNew |-> FALSE, data |-> << >>, ts |-> NoBackup, bts |-> NoBackup,
           preFile |-> NoFile, preDict |-> << >>, preIndex |-> << >>, preMemo |-> << >>,
           chained |-> FALSE, failAt |-> "none", onlyMut |-> TRUE, error |-> "none",
           preCache |-> [t \in {"company", "university"} |-> NoCache],
           query |-> << >>, limit |-> 0, results |-> << >>, threshold |-> 0,
           issues |-> << >>,
           ops |-> 0, rollbacks |-> 0, failures |-> 0, reads |-> 0]

\* __init__: both dictionaries are loaded (writing the cache snapshots) and indexed
Init ==
    \E fc \in InitFiles("company"), fu \in InitFiles("university") :
        LET d0 == [t \in Types |-> FreshDisk(IF t = "company" THEN fc ELSE fu)]
            ld == [t \in Types |-> LoadDictionaryWithCache(d0[t], JsonKey(t), 1)]
        IN  /\ dict = [t \in Types |-> ld[t].data]
            /\ index = [t \in Types |-> BuildIndex(ld[t].data)]
            /\ memo = EmptyMemo
            /\ disk = [t \in Types |-> ld[t].disk]
            /\ clock = 1
            /\ lock = "free"
            /\ th = [w \in Threads |-> IdleThread]
            /\ rd = IdleReader
            /\ hist = NoHist

(***************************************************************************)
(* normalize_company / normalize_university in the current state, as one    *)
(* call made while no other thread runs.                                    *)
(***************************************************************************)
\* _fuzzy_match_cached behind its lru_cache, for an index and a memo
FuzzyIn(idx, mem, t, query, threshold) ==
    IF MemoHas(mem, MemoKey(query, t, threshold))
    THEN MemoGet(mem, MemoKey(query, t, threshold))
    ELSE FuzzyMatch(IndexKeys(idx), idx, query, threshold)

\* the same without the test of the empty name
NormalizeUnguarded(idx, mem, t, name, threshold) ==
    IF IndexHas(idx, Lower(name)) THEN IndexGet(idx, Lower(name))
    ELSE FuzzyReturn(FuzzyIn(idx, mem, t, Lower(name), threshold), name)

NormalizeIn(idx, mem, t, name, threshold) ==
    IF name = << >> THEN << >>
    ELSE IF IndexHas(idx, Lower(name)) THEN IndexGet(idx, Lower(name))
    ELSE FuzzyReturn(FuzzyIn(idx, mem, t, Lower(name), threshold), name)

NormalizeNow(t, name, threshold) == NormalizeIn(index[t], memo, t, name, threshold)

\* the memo after that call
MemoAfter(t, name, threshold) ==
    LET k == MemoKey(Lower(name), t, threshold)
    IN  IF name = << >> \/ IndexHas(index[t], Lower(name)) THEN memo
        ELSE IF MemoHas(memo, k) THEN MemoTouch(memo, k)
        ELSE MemoPut(memo, k, FuzzyMatch(IndexKeys(index[t]), index[t], Lower(name), threshold))

Quiet ==
    /\ lock = "free"
    /\ rd.pc \in {"idle", "done", "raised"}
    /\ \A w \in Threads : th[w].pc = "idle"

(***************************************************************************)
(* The operations, each as one step (no other thread runs meanwhile).       *)
(***************************************************************************)
\* normalize_company(name) / normalize_university(name), as resumes.py calls them
Normalize(t, name) ==
    /\ Quiet
    /\ hist.reads < MaxReads
    /\ memo' = MemoAfter(t, name, DefaultThreshold)
    /\ memo' # memo
    /\ hist' = [hist EXCEPT !.reads = @ + 1]
    /\ UNCHANGED <<dict, index, disk, clock, lock, th, rd>>

CanFail(failAt) == failAt = "none" \/ hist.failures < MaxFailures

\* add_company_mapping / add_university_mapping
AddMapping(t, alias, standard, failAt) ==
    LET d1 == AppendAlias(AddEntry(dict[t], standard), standard, alias)
        sv == SaveDictionary(disk[t], JsonKey(t), d1, clock, failAt)
    IN  /\ Quiet
        /\ hist.ops < MaxOps
        /\ CanFail(failAt)
        /\ failAt = "unlink" => disk[t].cache.exists
        /\ dict' = [dict EXCEPT ![t] = d1]
        /\ index' = [index EXCEPT ![t] = AddToIndex(@, alias, standard)]
        /\ disk' = [disk EXCEPT ![t] = sv.disk]
        /\ memo' = IF sv.raised THEN memo ELSE CacheClear(memo)
        /\ hist' = [NoHist EXCEPT !.kind = "add", !.t = t, !.ok = ~sv.raised, !.failAt = failAt,
                                  !.onlyMut = hist.onlyMut /\ ~sv.raised,
                                  !.alias = alias, !.standard = standard,
                                  !.isNew = ~DictHas(dict[t], standard),
                                  !.bts = sv.bts, !.preFile = disk[t].file,
                                  !.preDict = dict[t],
                                  !.preIndex = index[t], !.preMemo = memo,
                                  !.ops = hist.ops + 1,
                                  !.failures = hist.failures + (IF sv.raised THEN 1 ELSE 0),
                                  !.reads = hist.reads, !.rollbacks = hist.rollbacks]
        /\ UNCHANGED <<clock, lock, th, rd>>

\* an index that keeps the keys of the index it replaces
MergedIndex(t, data) == BuildInto(index[t], data)

\* self.company_index = self._build_index(companies)
ReplacedIndex(t, data) == BuildIndex(data)

\* update_companies / update_universities
ReplaceDictionary(t, data, failAt) ==
    LET sv == SaveDictionary(disk[t], JsonKey(t), data, clock, failAt)
    IN  /\ Quiet
        /\ hist.ops < MaxOps
        /\ CanFail(failAt)
        /\ failAt = "unlink" => disk[t].cache.exists
        /\ dict' = [dict EXCEPT ![t] = data]
        /\ index' = [index EXCEPT ![t] = ReplacedIndex(t, data)]
        /\ disk' = [disk EXCEPT ![t] = sv.disk]
        /\ memo' = IF sv.raised THEN memo ELSE CacheClear(memo)
        /\ hist' = [NoHist EXCEPT !.kind = "replace", !.t = t, !.ok = ~sv.raised, !.failAt = failAt,
                                  !.onlyMut = hist.onlyMut /\ ~sv.raised,
                                  !.data = data, !.bts = sv.bts,
                                  !.preFile = disk[t].file,
                                  !.preDict = dict[t],
                                  !.preIndex = index[t], !.preMemo = memo,
                                  !.ops = hist.ops + 1,
                                  !.failures = hist.failures + (IF sv.raised THEN 1 ELSE 0),
                                  !.reads = hist.reads, !.rollbacks = hist.rollbacks]
        /\ UNCHANGED <<clock, lock, th, rd>>

\* rollback_to_backup with a timestamp that names a backup
Rollback(t, ts) ==
    LET dk == CopyData(CopyOpen(disk[t], clock), ts)
        ld == LoadDictionary(dk.file, JsonKey(t))
    IN  /\ Quiet
        /\ hist.rollbacks < MaxRollbacks
        /\ HasBackup(disk[t], ts)
        /\ disk' = [disk EXCEPT ![t] = dk]
        /\ dict' = IF ld.ok THEN [dict EXCEPT ![t] = ld.data] ELSE dict
        /\ index' = IF ld.ok THEN [index EXCEPT ![t] = BuildIndex(ld.data)] ELSE index
        /\ memo' = IF ld.ok THEN CacheClear(memo) ELSE memo
        /\ hist' = [NoHist EXCEPT !.kind = "rollback", !.t = t, !.ok = ld.ok, !.ts = ts,
                                  !.preFile = disk[t].file,
                                  !.preIndex = IF hist.kind \in {"add", "replace"} /\ hist.t = t
                                               THEN hist.preIndex ELSE index[t],
                                  !.preMemo = IF hist.kind \in {"add", "replace"} /\ hist.t = t
                                              THEN hist.preMemo ELSE memo,
                                  !.chained = /\ hist.kind \in {"add", "replace"}
                                              /\ hist.t = t /\ hist.ok /\ hist.bts = ts,
                                  !.onlyMut = FALSE,
                                  !.ops = hist.ops, !.failures = hist.failures,
                                  !.reads = hist.reads, !.rollbacks = hist.rollbacks + 1]
        /\ UNCHANGED <<clock, lock, th, rd>>

\* rollback_to_backup with a timestamp that names no backup: FileNotFoundError
RollbackNotFound(t, ts) ==
    /\ Quiet
    /\ hist.rollbacks < MaxRollbacks
    /\ ~HasBackup(disk[t], ts)
    /\ hist' = [NoHist EXCEPT !.kind = "notfound", !.t = t, !.ok = FALSE,
                              !.preFile = disk[t].file, !.preIndex = index[t],
                              !.preMemo = memo, !.onlyMut = FALSE,
                              !.ops = hist.ops, !.failures = hist.failures,
                              !.reads = hist.reads, !.rollbacks = hist.rollbacks + 1]
    /\ UNCHANGED <<dict, index, memo, disk, clock, lock, th, rd>>

\* the process is restarted: __init__ runs again on the directory as it is
Restart ==
    LET ld == [t \in Types |-> LoadDictionaryWithCache(disk[t], JsonKey(t), clock)]
    IN  /\ Quiet
        /\ hist.ops < MaxOps
        /\ \A t \in Types : ld[t].ok
        /\ dict' = [t \in Types |-> ld[t].data]
        /\ index' = [t \in Types |-> BuildIndex(ld[t].data)]
        /\ memo' = EmptyMemo
        /\ disk' = [t \in Types |-> ld[t].disk]
        /\ hist' = [NoHist EXCEPT !.kind = "restart", !.onlyMut = FALSE,
                                  !.ops = hist.ops + 1, !.failures = hist.failures,
                                  !.reads = hist.reads, !.rollbacks = hist.rollbacks]
        /\ UNCHANGED <<clock, lock, th, rd>>

\* time passes (an operation is short: the clock is read between operations)
Tick ==
    /\ Quiet
    /\ clock < MaxClock
    /\ clock' = clock + 1
    /\ UNCHANGED <<dict, index, memo, disk, lock, th, rd, hist>>

Timestamps == 0..SecondOf(MaxClock)

Next ==
    \/ \E t \in Types, q \in CallNames : Normalize(t, q)
    \/ \E t \in Types, f \in FailPoints : \E p \in AddPairs(t) : AddMapping(t, p[1], p[2], f)
    \/ \E t \in Types, f \in FailPoints : \E d \in ReplaceDicts(t) : ReplaceDictionary(t, d, f)
    \/ \E t \in Types, ts \in Timestamps : Rollback(t, ts)
    \/ \E t \in Types, ts \in Timestamps : RollbackNotFound(t, ts)
    \/ Restart
    \/ Tick

Spec == Init /\ [][Next]_vars

(***************************************************************************)
(* The same operations statement by statement, run by threads: two threads  *)
(* that mutate and one that calls normalize.  A step is one statement of    *)
(* the source, or one system call of a file copy.                           *)
(***************************************************************************)
\* a lock that is never held: what the service would be without self._lock
LockIgnored == TRUE

\* with self._lock: the lock can be taken
LockFree == lock = "free"

InCritical(w) == th[w].pc \notin {"idle", "acquire"}

SavePcs == {"s_backup", "s_temp", "s_replace", "s_unlink", "x_restore", "x_copy"}

Goto(w, pc) == [th EXCEPT ![w].pc = pc]

\* the index of type t changes while normalize may be running: a reference
\* the reader took keeps naming the old object when the field is reassigned
ReaderSees(t, newIndex, reassigned) ==
    IF rd.pc \in {"idle", "done", "raised"} \/ rd.t # t \/ rd.op # "normalize" THEN rd
    ELSE [rd EXCEPT !.seen = @ \cup {newIndex},
                    !.live = IF reassigned THEN FALSE ELSE @,
                    !.held = IF reassigned /\ rd.live THEN index[t] ELSE @]

\* search, validate or get_statistics is walking the Dictionary of type t
Scanning(t) ==
    rd.op # "normalize" /\ rd.pc \notin {"idle", "done", "raised"} /\ rd.t = t

\* a mutation of type t has made d the Dictionary while a walk may be going
\* on: d is one of the Dictionaries that were current during the walk
ScanSees(t, d) ==
    IF Scanning(t) THEN [rd EXCEPT !.seen = @ \cup {d}] ELSE rd

\* self.companies (self.universities) is reassigned to d while a walk may be
\* going on: the walk goes on in the old object
ScanKeeps(t, d) ==
    IF Scanning(t)
    THEN [rd EXCEPT !.seen = @ \cup {d},
                    !.live = FALSE,
                    !.held = IF rd.live THEN dict[t] ELSE @]
    ELSE rd

\* a thread calls add_*_mapping, update_* or rollback_to_backup and waits
\* for the lock
Call(w) ==
    /\ th[w].pc = "idle"
    /\ hist.ops < MaxThreadOps
    /\ th' = Goto(w, "acquire")
    /\ hist' = [hist EXCEPT !.ops = @ + 1]
    /\ UNCHANGED <<dict, index, memo, disk, clock, lock, rd>>

\* with self._lock: the call's arguments come into play
Acquire(w, kind, t, alias, standard, data, ts) ==
    /\ th[w].pc = "acquire"
    /\ LockFree
    /\ lock' = w
    /\ th' = [th EXCEPT ![w] = [pc |-> CASE kind = "add" -> "a_entry"
                                         [] kind = "replace" -> "u_dict"
                                         [] OTHER -> "r_check",
                                kind |-> kind, t |-> t, alias |-> alias,
                                standard |-> standard, data |-> data, ts |-> ts,
                                bts |-> NoBackup, created |-> FALSE]]
    /\ UNCHANGED <<dict, index, memo, disk, clock, rd, hist>>

\* leaving the with block, by return or by exception
Release(w) ==
    /\ lock' = "free"
    /\ th' = [th EXCEPT ![w] = IdleThread]

\* add: if standard not in self.companies: ...
StepAddEntry(w) ==
    /\ th[w].pc = "a_entry"
    /\ dict' = [dict EXCEPT ![th[w].t] = AddEntry(@, th[w].standard)]
    /\ th' = [th EXCEPT ![w].pc = "a_alias",
                        ![w].created = ~DictHas(dict[th[w].t], th[w].standard)]
    /\ UNCHANGED <<index, memo, disk, clock, lock, rd, hist>>

\* add: if alias not in aliases: aliases.append(alias)
StepAppendAlias(w) ==
    /\ th[w].pc = "a_alias"
    /\ dict' = [dict EXCEPT ![th[w].t] = AppendAlias(@, th[w].standard, th[w].alias)]
    /\ rd' = ScanSees(th[w].t, AppendAlias(dict[th[w].t], th[w].standard, th[w].alias))
    /\ th' = [th EXCEPT ![w].pc = "a_index", ![w].created = FALSE]
    /\ UNCHANGED <<index, memo, disk, clock, lock, hist>>

\* add: self.company_index[alias.lower()] = standard (the object is changed)
StepAddIndex(w) ==
    LET t == th[w].t
        new == AddToIndex(index[t], th[w].alias, th[w].standard)
    IN  /\ th[w].pc = "a_index"
        /\ index' = [index EXCEPT ![t] = new]
        /\ rd' = ReaderSees(t, new, FALSE)
        /\ th' = Goto(w, "s_backup")
        /\ UNCHANGED <<dict, memo, disk, clock, lock, hist>>

\* update: self.companies = companies
StepSetDict(w) ==
    /\ th[w].pc = "u_dict"
    /\ dict' = [dict EXCEPT ![th[w].t] = th[w].data]
    /\ rd' = ScanKeeps(th[w].t, th[w].data)
    /\ th' = Goto(w, "u_index")
    /\ UNCHANGED <<index, memo, disk, clock, lock, hist>>

\* update: self.company_index = self._build_index(companies) (a new object)
StepSetIndex(w) ==
    LET t == th[w].t
        new == ReplacedIndex(t, th[w].data)
    IN  /\ th[w].pc = "u_index"
        /\ index' = [index EXCEPT ![t] = new]
        /\ rd' = ReaderSees(t, new, TRUE)
        /\ th' = Goto(w, "s_backup")
        /\ UNCHANGED <<dict, memo, disk, clock, lock, hist>>

\* save: the backup and the pruning
StepBackup(w) ==
    LET t == th[w].t
    IN  /\ th[w].pc = "s_backup"
        /\ disk' = [disk EXCEPT ![t] = SaveBackup(@, clock)]
        /\ th' = [th EXCEPT ![w].pc = "s_temp", ![w].bts = BackupPath(disk[t], clock)]
        /\ UNCHANGED <<dict, index, memo, clock, lock, rd, hist>>

\* save: the temporary file is written
StepTemp(w) ==
    LET t == th[w].t
    IN  /\ th[w].pc = "s_temp"
        /\ disk' = [disk EXCEPT ![t] = WriteTemp(@, JsonKey(t), dict[t])]
        /\ th' = Goto(w, "s_replace")
        /\ UNCHANGED <<dict, index, memo, clock, lock, rd, hist>>

\* save: writing the temporary file raises
StepTempFails(w) ==
    LET t == th[w].t
    IN  /\ th[w].pc = "s_temp"
        /\ hist.failures < MaxFailures
        /\ disk' = [disk EXCEPT ![t] = WriteTempFails(@)]
        /\ th' = Goto(w, "x_restore")
        /\ hist' = [hist EXCEPT !.failures = @ + 1]
        /\ UNCHANGED <<dict, index, memo, clock, lock, rd>>

\* save: temp_path.replace(file_path)
StepReplace(w) ==
    LET t == th[w].t
    IN  /\ th[w].pc = "s_replace"
        /\ disk' = [disk EXCEPT ![t] = ReplaceTarget(@, clock)]
        /\ th' = Goto(w, "s_unlink")
        /\ UNCHANGED <<dict, index, memo, clock, lock, rd, hist>>

\* save: the replace raises
StepReplaceFails(w) ==
    /\ th[w].pc = "s_replace"
    /\ hist.failures < MaxFailures
    /\ th' = Goto(w, "x_restore")
    /\ hist' = [hist EXCEPT !.failures = @ + 1]
    /\ UNCHANGED <<dict, index, memo, disk, clock, lock, rd>>

\* save: if cache_path.exists(): cache_path.unlink()
StepUnlink(w) ==
    LET t == th[w].t
    IN  /\ th[w].pc = "s_unlink"
        /\ disk' = [disk EXCEPT ![t] = UnlinkCache(@)]
        /\ th' = Goto(w, "clear")
        /\ UNCHANGED <<dict, index, memo, clock, lock, rd, hist>>

\* save: the unlink raises
StepUnlinkFails(w) ==
    /\ th[w].pc = "s_unlink"
    /\ disk[th[w].t].cache.exists
    /\ hist.failures < MaxFailures
    /\ th' = Goto(w, "x_restore")
    /\ hist' = [hist EXCEPT !.failures = @ + 1]
    /\ UNCHANGED <<dict, index, memo, disk, clock, lock, rd>>

\* save, except branch: the copy of the backup opens the live file ...
StepRestoreOpen(w) ==
    LET t == th[w].t
    IN  /\ th[w].pc = "x_restore"
        /\ th[w].bts # NoBackup /\ HasBackup(disk[t], th[w].bts)
        /\ disk' = [disk EXCEPT ![t] = CopyOpen(@, clock)]
        /\ th' = Goto(w, "x_copy")
        /\ UNCHANGED <<dict, index, memo, clock, lock, rd, hist>>

\* ... and writes it; then raise
StepRestoreCopy(w) ==
    LET t == th[w].t
    IN  /\ th[w].pc = "x_copy"
        /\ disk' = [disk EXCEPT ![t] = CopyData(@, th[w].bts)]
        /\ Release(w)
        /\ UNCHANGED <<dict, index, memo, clock, rd, hist>>

\* save, except branch, with no backup to restore: raise
StepRaise(w) ==
    /\ th[w].pc = "x_restore"
    /\ ~(th[w].bts # NoBackup /\ HasBackup(disk[th[w].t], th[w].bts))
    /\ Release(w)
    /\ UNCHANGED <<dict, index, memo, disk, clock, rd, hist>>

\* self._fuzzy_match_cached.cache_clear(), the last statement under the lock
StepClear(w) ==
    /\ th[w].pc = "clear"
    /\ memo' = CacheClear(memo)
    /\ Release(w)
    /\ UNCHANGED <<dict, index, disk, clock, rd, hist>>

\* a not-found path that clears the memo on its way out
StepRollbackMissingClears(w) ==
    /\ th[w].pc = "r_check"
    /\ ~HasBackup(disk[th[w].t], th[w].ts)
    /\ memo' = CacheClear(memo)
    /\ Release(w)
    /\ UNCHANGED <<dict, index, disk, clock, rd, hist>>

\* rollback: no such backup: FileNotFoundError
StepRollbackMissing(w) ==
    /\ th[w].pc = "r_check"
    /\ ~HasBackup(disk[th[w].t], th[w].ts)
    /\ Release(w)
    /\ UNCHANGED <<dict, index, memo, disk, clock, rd, hist>>

\* rollback: shutil.copy2(backup_path, file_path) opens the live file ...
StepRollbackOpen(w) ==
    LET t == th[w].t
    IN  /\ th[w].pc = "r_check"
        /\ HasBackup(disk[t], th[w].ts)
        /\ disk' = [disk EXCEPT ![t] = CopyOpen(@, clock)]
        /\ th' = Goto(w, "r_copy")
        /\ UNCHANGED <<dict, index, memo, clock, lock, rd, hist>>

\* ... and writes it
StepRollbackCopy(w) ==
    LET t == th[w].t
    IN  /\ th[w].pc = "r_copy"
        /\ disk' = [disk EXCEPT ![t] = CopyData(@, th[w].ts)]
        /\ th' = Goto(w, "r_load")
        /\ UNCHANGED <<dict, index, memo, clock, lock, rd, hist>>

\* rollback: self.companies = self._load_dictionary(...); the index is rebuilt
StepRollbackLoad(w) ==
    LET t == th[w].t
        ld == LoadDictionary(disk[t].file, JsonKey(t))
    IN  /\ th[w].pc = "r_load"
        /\ ld.ok
        /\ dict' = [dict EXCEPT ![t] = ld.data]
        /\ rd' = ScanKeeps(t, ld.data)
        /\ th' = Goto(w, "r_index")
        /\ UNCHANGED <<index, memo, disk, clock, lock, hist>>

StepRollbackIndex(w) ==
    LET t == th[w].t
        new == BuildIndex(dict[t])
    IN  /\ th[w].pc = "r_index"
        /\ index' = [index EXCEPT ![t] = new]
        /\ rd' = ReaderSees(t, new, TRUE)
        /\ th' = Goto(w, "clear")
        /\ UNCHANGED <<dict, memo, disk, clock, lock, hist>>

(***************************************************************************)
(* normalize_company / normalize_university, one read of the service's      *)
(* fields per step.                                                         *)
(***************************************************************************)
\* the index object the reader's local variable names
HeldIndex == IF rd.live THEN index[rd.t] ELSE rd.held

\* the call is over: its result, and whether it is what normalize computes
\* against one of the indexes that were current during the call
Returned(result) ==
    [IdleReader EXCEPT !.pc = "done", !.t = rd.t, !.name = rd.name, !.result = result,
                       !.fromMemo = rd.fromMemo,
                       !.consistent = \E i \in rd.seen :
                                          result = NormalizeOn(i, rd.name, rd.threshold)]

\* the call ends with KeyError
Raised == [IdleReader EXCEPT !.pc = "raised", !.t = rd.t, !.name = rd.name,
                             !.consistent = FALSE]

\* if not name: return "" ; if name_lower in self.company_index: ... ; else
\* _fuzzy_match_cached is called and the lru_cache wrapper looks the key up
ReadCall(t, name) ==
    LET k == MemoKey(Lower(name), t, DefaultThreshold)
        r0 == [IdleReader EXCEPT !.t = t, !.name = name, !.seen = {index[t]}]
    IN  /\ rd.pc \in {"idle", "done", "raised"}
        /\ hist.reads < MaxReads
        /\ hist' = [hist EXCEPT !.reads = @ + 1]
        /\ IF name = << >>
           THEN /\ rd' = [r0 EXCEPT !.pc = "done", !.consistent = TRUE]
                /\ memo' = memo
           ELSE IF IndexHas(index[t], Lower(name))
           THEN /\ rd' = [r0 EXCEPT !.pc = "n_get"]
                /\ memo' = memo
           ELSE IF MemoHas(memo, k)
           THEN /\ rd' = [r0 EXCEPT !.pc = "done", !.fromMemo = TRUE,
                                    !.result = FuzzyReturn(MemoGet(memo, k), name),
                                    !.consistent = FuzzyReturn(MemoGet(memo, k), name)
                                                   = NormalizeOn(index[t], name, DefaultThreshold)]
                /\ memo' = MemoTouch(memo, k)
           ELSE /\ rd' = [r0 EXCEPT !.pc = "n_keys"]
                /\ memo' = memo
        /\ UNCHANGED <<dict, index, disk, clock, lock, th>>

\* return self.company_index[name_lower]
ReadGet ==
    /\ rd.pc = "n_get"
    /\ rd' = IF IndexHas(index[rd.t], Lower(rd.name))
             THEN Returned(IndexGet(index[rd.t], Lower(rd.name)))
             ELSE Raised
    /\ UNCHANGED <<dict, index, memo, disk, clock, lock, th, hist>>

\* aliases = list(self.company_index.keys())
ReadKeys ==
    /\ rd.pc = "n_keys"
    /\ rd' = [rd EXCEPT !.pc = "n_ref", !.keys = IndexKeys(index[rd.t])]
    /\ UNCHANGED <<dict, index, memo, disk, clock, lock, th, hist>>

\* index = self.company_index
ReadRef ==
    /\ rd.pc = "n_ref"
    /\ rd' = [rd EXCEPT !.pc = "n_extract", !.live = TRUE]
    /\ UNCHANGED <<dict, index, memo, disk, clock, lock, th, hist>>

\* process.extractOne(...); return index[matched_alias], score ; the
\* lru_cache wrapper stores the result ; if standard: return standard ;
\* return name
ReadExtract ==
    LET p == ExtractOne(Lower(rd.name), rd.keys, rd.threshold)
        m == FuzzyMatch(rd.keys, HeldIndex, Lower(rd.name), rd.threshold)
    IN  /\ rd.pc = "n_extract"
        /\ IF p # 0 /\ ~IndexHas(HeldIndex, rd.keys[p])
           THEN /\ rd' = Raised
                /\ memo' = memo
           ELSE /\ rd' = Returned(FuzzyReturn(m, rd.name))
                /\ memo' = MemoPut(memo, MemoKey(Lower(rd.name), rd.t, rd.threshold), m)
        /\ UNCHANGED <<dict, index, disk, clock, lock, th, hist>>

\* the threads start from one directory
InitThreads ==
    /\ Init
    /\ dict["company"] = D_one
    /\ ~disk["university"].file.exists

ReadNames == {s_ab, s_aba}

NextThreads ==
    \/ \E w \in Threads, t \in Types : \E p \in AddPairs(t) :
          Acquire(w, "add", t, p[1], p[2], << >>, NoBackup)
    \/ \E w \in Threads, t \in Types : \E d \in ReplaceDicts(t) :
          Acquire(w, "replace", t, << >>, << >>, d, NoBackup)
    \/ \E w \in Threads, t \in Types, ts \in Timestamps :
          Acquire(w, "rollback", t, << >>, << >>, << >>, ts)
    \/ \E w \in Threads :
          \/ Call(w)
          \/ StepAddEntry(w) \/ StepAppendAlias(w) \/ StepAddIndex(w)
          \/ StepSetDict(w) \/ StepSetIndex(w)
          \/ StepBackup(w) \/ StepTemp(w) \/ StepTempFails(w)
          \/ StepReplace(w) \/ StepReplaceFails(w)
          \/ StepUnlink(w) \/ StepUnlinkFails(w)
          \/ StepRestoreOpen(w) \/ StepRestoreCopy(w) \/ StepRaise(w)
          \/ StepClear(w)
          \/ StepRollbackMissing(w) \/ StepRollbackOpen(w) \/ StepRollbackCopy(w)
          \/ StepRollbackLoad(w) \/ StepRollbackIndex(w)
    \/ \E t \in Types, q \in ReadNames : ReadCall(t, q)
    \/ ReadGet \/ ReadKeys \/ ReadRef \/ ReadExtract
    \/ Tick

SpecThreads == InitThreads /\ [][NextThreads]_vars

(***************************************************************************)
(* The properties.                                                          *)
(***************************************************************************)
\* the live file of type t holds one complete serialized Dictionary
CompleteFile(t) ==
    /\ disk[t].file.text.syntax = "ok"
    /\ LoadDictionary(disk[t].file, JsonKey(t)).ok

\* C1: at every moment of every execution (during save, during the recovery
\* from a failed save, during rollback) the live dictionary file is either
\* absent or holds one complete serialized Dictionary.
C1_LiveFileAlwaysComplete ==
    \A t \in Types : disk[t].file.exists => CompleteFile(t)

\* C2: the critical sections of add, replace and rollback never overlap: at
\* most one thread is between the acquisition and the release of the lock,
\* that thread is the holder of the lock, and every statement of save runs
\* while its caller holds the lock.
C2_CriticalSectionsExclusive ==
    /\ \A w1, w2 \in Threads : InCritical(w1) /\ InCritical(w2) => w1 = w2
    /\ \A w \in Threads : InCritical(w) <=> lock = w
    /\ \A w \in Threads : th[w].pc \in SavePcs => lock = w

\* one thread is inside save while the other has called a mutation and waits
C2_Witness ==
    \E w1, w2 \in Threads :
        /\ w1 # w2
        /\ th[w1].pc \in SavePcs /\ lock = w1
        /\ th[w2].pc = "acquire"

\* C3: a normalize call that runs concurrently with a mutation observes
\* either the complete pre-mutation AliasIndex or the complete post-mutation
\* AliasIndex: what the call computes itself (not a memo hit) is what
\* normalize computes against one of the indexes that were current during
\* the call.
C3_ReaderSeesOneIndex ==
    (rd.pc \in {"done", "raised"} /\ ~rd.fromMemo) => rd.consistent

\* C7: normalize is total: in every reachable state, also while a mutation
\* is in progress on another thread, a call returns without raising, and for
\* a non-empty input the returned string is non-empty.
C7_NormalizeTotal ==
    /\ rd.pc # "raised"
    /\ (rd.pc = "done" /\ rd.name # << >>) => rd.result # << >>

\* the mutation that has just returned changed the Dictionary in memory
MutationKept ==
    IF hist.kind = "add"
    THEN /\ DictHas(dict[hist.t], hist.standard)
         /\ SeqHas(DictGet(dict[hist.t], hist.standard).aliases, hist.alias)
    ELSE dict[hist.t] = hist.data

\* C4: if save fails while writing the temporary file, replacing the target
\* or deleting the cache snapshot, and the target file existed when save
\* started, then when the mutation returns the live file's content is its
\* content before the save, the error has reached the caller, and the
\* Dictionary in memory still contains the attempted mutation.
C4_FailedSaveRestoresFile ==
    (hist.kind \in {"add", "replace"} /\ hist.failAt # "none" /\ hist.preFile.exists) =>
        /\ disk[hist.t].file.exists
        /\ disk[hist.t].file.text = hist.preFile.text
        /\ ~hist.ok
        /\ MutationKept

\* a save that had replaced the target failed, and the file is back to a
\* content that differs from the Dictionary in memory
C4_Witness ==
    /\ hist.kind \in {"add", "replace"}
    /\ hist.failAt = "unlink"
    /\ ~hist.ok
    /\ hist.preFile.exists
    /\ disk[hist.t].file.text = hist.preFile.text
    /\ disk[hist.t].file.text # Serialize(JsonKey(hist.t), dict[hist.t])
    /\ MutationKept

\* what normalize returns in a fresh process started on the directory
ColdNormalize(t, name, threshold) ==
    LET ld == LoadDictionaryWithCache(disk[t], JsonKey(t), clock)
    IN  NormalizeIn(BuildIndex(ld.data), EmptyMemo, t, name, threshold)

\* C5: round trip: after any sequence of successful add and replace calls, a
\* cold reload of the saved files yields a service whose normalize returns,
\* for every query and threshold, what the running service returns.
C5_RoundTrip ==
    (hist.kind \in {"add", "replace"} /\ hist.onlyMut) =>
        \A t \in Types, q \in Queries, thr \in Thresholds :
            /\ LoadDictionaryWithCache(disk[t], JsonKey(t), clock).ok
            /\ ColdNormalize(t, q, thr) = NormalizeNow(t, q, thr)

\* C6: after a mutation M (add or replace) whose save created backup T,
\* rollback(file, T) makes normalize return, for every query and threshold,
\* what it returned immediately before M.  Stated for executions in which no
\* save has failed.
C6_RollbackRestoresNormalize ==
    (hist.kind = "rollback" /\ hist.chained /\ hist.ok /\ hist.failures = 0) =>
        \A q \in Queries, thr \in Thresholds :
            NormalizeNow(hist.t, q, thr)
                = NormalizeIn(hist.preIndex, hist.preMemo, hist.t, q, thr)

\* the Dictionary of type t in memory was loaded from its file or installed
\* by a replace, and indexed by _build_index
Built(t) ==
    \/ hist.kind \in {"init", "restart"}
    \/ hist.kind = "replace" /\ hist.t = t
    \/ hist.kind = "rollback" /\ hist.t = t /\ hist.ok

\* an entry after s's own claims the key of s: its standard or one of its
\* aliases equals s when case is ignored
LaterClaim(d, s) ==
    \E i \in 1..Len(d) :
        /\ i > DictPos(d, s)
        /\ \/ Lower(d[i].standard) = Lower(s)
           \/ \E j \in 1..Len(d[i].aliases) : Lower(d[i].aliases[j]) = Lower(s)

\* C8 (as amended): for every Dictionary loaded or installed by a replace and
\* every standard s of it that no later entry claims (no later entry has a
\* standard or an alias equal to s when case is ignored), normalize(s) = s.
C8_UnclaimedStandardIsFixed ==
    \A t \in Types : Built(t) =>
        \A s \in Standards(dict[t]), thr \in Thresholds :
            ~LaterClaim(dict[t], s) => NormalizeNow(t, s, thr) = s

\* C8 (as stated): for every Dictionary loaded or installed by a replace and
\* every standard s of it, normalize(s) = s.
C8_EveryStandardIsFixed ==
    \A t \in Types : Built(t) =>
        \A s \in Standards(dict[t]), thr \in Thresholds : NormalizeNow(t, s, thr) = s

\* a replace has installed a Dictionary with a standard that is not its own
\* lower case and that no later entry claims; normalize maps it to itself
C8_Witness ==
    /\ hist.kind = "replace"
    /\ \E s \in Standards(dict[hist.t]) :
          /\ s # Lower(s)
          /\ ~LaterClaim(dict[hist.t], s)
          /\ NormalizeNow(hist.t, s, DefaultThreshold) = s

\* another entry than s's claims the key of alias a
ClaimedElsewhere(d, s, a) ==
    \E i \in 1..Len(d) :
        /\ i # DictPos(d, s)
        /\ \/ Lower(d[i].standard) = Lower(a)
           \/ \E j \in 1..Len(d[i].aliases) : Lower(d[i].aliases[j]) = Lower(a)

\* C9: for every standard s of the current Dictionary, every alias a in s's
\* alias list and every case variant q of a, normalize(q) = s.  Stated for
\* the non-empty aliases that no other entry claims.
C9_AliasVariantsNormalize ==
    \A t \in Types : \A s \in Standards(dict[t]) :
        \A j \in 1..Len(DictGet(dict[t], s).aliases) :
            LET a == DictGet(dict[t], s).aliases[j]
            IN  (a # << >> /\ ~ClaimedElsewhere(dict[t], s, a)) =>
                    \A q \in Queries, thr \in Thresholds :
                        Lower(q) = Lower(a) => NormalizeNow(t, q, thr) = s

\* C10: after a successful add(alias, standard) where standard was not a key
\* of the Dictionary, normalize(alias) = standard and normalize(standard) =
\* standard at the default threshold.
C10_NewStandardNormalizes ==
    (hist.kind = "add" /\ hist.ok /\ hist.isNew) =>
        /\ NormalizeNow(hist.t, hist.alias, DefaultThreshold) = hist.standard
        /\ NormalizeNow(hist.t, hist.standard, DefaultThreshold) = hist.standard

\* C11: in every state where no mutation is in progress, the AliasIndex has
\* the key lower(s) for every standard s of the Dictionary, also after an
\* add has created a new standard.
C11_IndexHasEveryStandard ==
    Quiet => \A t \in Types : \A s \in Standards(dict[t]) : IndexHas(index[t], Lower(s))

\* Dictionary d has a standard or an alias equal to a when case is ignored
Claims(d, a) ==
    \E i \in 1..Len(d) :
        \/ Lower(d[i].standard) = Lower(a)
        \/ \E j \in 1..Len(d[i].aliases) : Lower(d[i].aliases[j]) = Lower(a)

\* after a successful replace, no alias of the old Dictionary that the new
\* one does not claim is a key of the index
OldAliasesGone ==
    \A i \in 1..Len(hist.preDict) : \A j \in 1..Len(hist.preDict[i].aliases) :
        ~Claims(dict[hist.t], hist.preDict[i].aliases[j]) =>
            ~IndexHas(index[hist.t], Lower(hist.preDict[i].aliases[j]))

\* C12 (as amended): after a successful replace(D2), every alias of the old
\* Dictionary that is neither an alias nor a standard of D2 (ignoring case)
\* is no longer resolved by exact lookup, and every normalize call returns
\* either a standard of D2 or its own input unchanged.
C12_ReplaceDropsOldAliases ==
    (hist.kind = "replace" /\ hist.ok) =>
        /\ OldAliasesGone
        /\ \A q \in Queries, thr \in Thresholds :
              \/ NormalizeNow(hist.t, q, thr) \in Standards(dict[hist.t])
              \/ NormalizeNow(hist.t, q, thr) = q

\* C12 (as stated, for non-empty queries): after a successful replace(D2),
\* every alias of the old Dictionary that D2 does not claim is no longer
\* resolved by exact lookup, and no normalize call returns a standard that
\* exists only in the old Dictionary.
C12_NoOldStandardReturned ==
    (hist.kind = "replace" /\ hist.ok) =>
        /\ OldAliasesGone
        /\ \A q \in Queries \ {s_empty}, thr \in Thresholds :
              NormalizeNow(hist.t, q, thr)
                  \notin (Standards(hist.preDict) \ Standards(dict[hist.t]))

\* a successful replace has dropped an alias of the old Dictionary and some
\* query resolves to a standard of the new one
C12_Witness ==
    /\ hist.kind = "replace" /\ hist.ok
    /\ \E i \in 1..Len(hist.preDict) : \E j \in 1..Len(hist.preDict[i].aliases) :
          /\ ~Claims(dict[hist.t], hist.preDict[i].aliases[j])
          /\ IndexHas(hist.preIndex, Lower(hist.preDict[i].aliases[j]))
          /\ ~IndexHas(index[hist.t], Lower(hist.preDict[i].aliases[j]))
    /\ \E q \in Queries :
          /\ NormalizeNow(hist.t, q, DefaultThreshold) # q
          /\ NormalizeNow(hist.t, q, DefaultThreshold) \in Standards(dict[hist.t])

\* key k of index idx scores at least as well against query as every key
MaxKey(idx, query, k) ==
    /\ IndexHas(idx, k)
    /\ \A i \in 1..Len(idx) : ~Better(query, idx[i].key, k)

\* C13: for a non-empty query with no exact index hit, normalize returns the
\* standard mapped by a maximum-scoring index key when that maximum score is
\* at least the threshold (inclusive), and the raw input unchanged when
\* every key scores below the threshold.
C13_FuzzyPicksMaximum ==
    \A t \in Types, q \in Queries \ {s_empty}, thr \in Thresholds :
        ~IndexHas(index[t], Lower(q)) =>
            IF \E i \in 1..Len(index[t]) : AtLeast(Lower(q), index[t][i].key, thr)
            THEN \E i \in 1..Len(index[t]) :
                    /\ MaxKey(index[t], Lower(q), index[t][i].key)
                    /\ NormalizeNow(t, q, thr) = index[t][i].standard
            ELSE NormalizeNow(t, q, thr) = q

\* the step is a call of add, replace or rollback that returns normally
MutationSucceeds ==
    /\ hist'.ops # hist.ops \/ hist'.rollbacks # hist.rollbacks
    /\ hist'.kind \in {"add", "replace", "rollback"}
    /\ hist'.ok

\* C14: after every successful mutation (add, replace or rollback, on either
\* dictionary type) the fuzzy-match memo is empty: no entry survives it.
C14_MemoEmptyAfterMutation ==
    [][MutationSucceeds => Len(memo') = 0]_vars

\* a successful add or replace has returned; the memo had an entry before it
\* and has none now
C14_Witness ==
    /\ hist.kind \in {"add", "replace"} /\ hist.ok
    /\ Len(hist.preMemo) > 0
    /\ Len(memo) = 0

(***************************************************************************)
(* The start of a process on a directory it did not write: __init__ loads   *)
(* both dictionaries from whatever files and cache snapshots it finds.      *)
(***************************************************************************)
FileOf(text) == [exists |-> TRUE, text |-> text, mtime |-> 1]

\* JSON objects of the wrong shape: the key is missing; its value is no object
KeyMissing == [syntax |-> "ok",
               members |-> << [key |-> "other", isObject |-> TRUE, value |-> D_one] >>]
ValueNotObject(t) == [syntax |-> "ok",
                      members |-> << [key |-> JsonKey(t), isObject |-> FALSE, value |-> << >>] >>]

\* the dictionary files a starting process may find
FoundFiles(t) ==
    IF t = "company"
    THEN {NoFile, FileOf(Serialize(JsonKey(t), D_one)), FileOf(Truncated),
          FileOf(NotAnObject), FileOf(KeyMissing), FileOf(ValueNotObject(t))}
    ELSE {NoFile, FileOf(Serialize(JsonKey(t), D_one)), FileOf(Truncated)}

CacheOf(version, mtime) ==
    [exists |-> TRUE, version |-> version, hasData |-> TRUE, data |-> D_coll, mtime |-> mtime]

\* a pickled object of the current version that has no 'data'
NoPayload(mtime) == [CacheOf(CACHE_VERSION, mtime) EXCEPT !.hasData = FALSE, !.data = << >>]

\* the cache snapshots it may find: none; newer than the file; as old as the
\* file; of another schema version; not a gzipped pickle; not readable;
\* without its payload
FoundCaches(t) ==
    IF t = "company"
    THEN {NoCache, CacheOf(CACHE_VERSION, 2), CacheOf(CACHE_VERSION, 1),
          CacheOf("v1", 2), CacheOf("corrupt", 2), CacheOf("unreadable", 2), NoPayload(2)}
    ELSE {NoCache, CacheOf(CACHE_VERSION, 2), CacheOf("v1", 2)}

InitLoad ==
    \E fc \in FoundFiles("company"), cc \in FoundCaches("company"),
       fu \in FoundFiles("university"), cu \in FoundCaches("university") :
        /\ disk = [t \in Types |->
                     [file |-> IF t = "company" THEN fc ELSE fu, tmp |-> NoTemp,
                      cache |-> IF t = "company" THEN cc ELSE cu, backups |-> {}]]
        /\ dict = [t \in Types |-> << >>]
        /\ index = [t \in Types |-> << >>]
        /\ memo = EmptyMemo
        /\ clock = 3
        /\ lock = "free"
        /\ th = [w \in Threads |-> IdleThread]
        /\ rd = IdleReader
        /\ hist = [NoHist EXCEPT !.kind = "boot"]

\* __init__: companies.json is loaded, then universities.json; an error of
\* either load ends the construction
Start ==
    LET lc == LoadDictionaryWithCache(disk["company"], JsonKey("company"), clock)
        lu == LoadDictionaryWithCache(disk["university"], JsonKey("university"), clock)
    IN  /\ hist.kind = "boot"
        /\ IF ~lc.ok
           THEN /\ hist' = [hist EXCEPT !.kind = "start", !.ok = FALSE, !.error = lc.error,
                                             !.preCache = [t \in Types |-> disk[t].cache]]
                /\ UNCHANGED <<dict, index, disk>>
           ELSE IF ~lu.ok
           THEN /\ hist' = [hist EXCEPT !.kind = "start", !.ok = FALSE, !.error = lu.error,
                                             !.preCache = [t \in Types |-> disk[t].cache]]
                /\ disk' = [disk EXCEPT !["company"] = lc.disk]
                /\ UNCHANGED <<dict, index>>
           ELSE /\ hist' = [hist EXCEPT !.kind = "start", !.ok = TRUE,
                                             !.preCache = [t \in Types |-> disk[t].cache]]
                /\ disk' = [company |-> lc.disk, university |-> lu.disk]
                /\ dict' = [company |-> lc.data, university |-> lu.data]
                /\ index' = [company |-> BuildIndex(lc.data), university |-> BuildIndex(lu.data)]
        /\ UNCHANGED <<memo, clock, lock, th, rd>>

NextLoad == Start

SpecLoad == InitLoad /\ [][NextLoad]_vars

\* the snapshot of type t is strictly newer than the file, of the current
\* schema version, and has a payload to return
SnapshotNewer(t) ==
    /\ disk[t].cache.exists /\ disk[t].file.exists
    /\ disk[t].cache.mtime > disk[t].file.mtime
    /\ disk[t].cache.version = "v2"
    /\ disk[t].cache.hasData

\* the load of type t, in a step that starts the service, follows the rule
LoadRule(t) ==
    LET parse == LoadDictionary(disk[t].file, JsonKey(t))
    IN  IF SnapshotNewer(t)
        THEN /\ disk'[t] = disk[t]
             /\ hist'.ok => dict'[t] = disk[t].cache.data
        ELSE IF parse.ok
        THEN /\ disk'[t].cache = [exists |-> TRUE, version |-> "v2", hasData |-> TRUE,
                                  data |-> parse.data, mtime |-> clock]
             /\ disk'[t].file = disk[t].file
             /\ hist'.ok => dict'[t] = parse.data
        ELSE /\ ~hist'.ok
             /\ disk'[t] = disk[t]

\* C15: loadWithCache returns the snapshot's payload only when the snapshot
\* is strictly newer than the source file and its version tag is the current
\* schema version; in every other case it parses the source file, writes a
\* fresh snapshot and returns the parsed Dictionary.
C15_CacheUsedOnlyWhenNewer ==
    [][(hist.kind = "boot" /\ hist'.kind = "start") =>
          /\ LoadRule("company")
          /\ (SnapshotNewer("company")
                \/ LoadDictionary(disk["company"].file, JsonKey("company")).ok)
             => LoadRule("university")]_vars

\* the service has started: the company Dictionary is the payload of a
\* snapshot that was kept, the university Dictionary was parsed from its
\* file and a fresh snapshot of it was written
C15_Witness ==
    /\ hist.kind = "start" /\ hist.ok
    /\ disk["company"].cache.mtime = 2
    /\ dict["company"] = disk["company"].cache.data
    /\ dict["company"] # LoadDictionary(disk["company"].file, JsonKey("company")).data
    /\ disk["university"].cache.mtime = clock
    /\ disk["university"].file.exists
    /\ dict["university"] = LoadDictionary(disk["university"].file, JsonKey("university")).data

\* the file of type t is a JSON object whose expected key maps to an object
WellShaped(t) ==
    /\ disk[t].file.text.syntax = "ok"
    /\ \E i \in 1..Len(disk[t].file.text.members) :
          /\ disk[t].file.text.members[i].key = JsonKey(t)
          /\ disk[t].file.text.members[i].isObject

\* C16: if the source file exists but is not a JSON object whose expected
\* key maps to an object, loading fails with an error and never yields an
\* empty Dictionary: a start that succeeded after parsing a file (it wrote
\* the file's snapshot) parsed a file of the right shape.
C16_MalformedFileFailsLoad ==
    (hist.kind = "start" /\ hist.ok) =>
        \A t \in Types :
            (disk[t].file.exists /\ disk[t].cache.mtime = clock) => WellShaped(t)

\* thread w is in rollback_to_backup, past the lock, and its timestamp names
\* no backup
RollbackFindsNothing(w) ==
    /\ th[w].pc = "r_check"
    /\ ~HasBackup(disk[th[w].t], th[w].ts)

\* C17: rollback(file, timestamp) with no backup of that timestamp fails with
\* a not-found error (the call ends at the check, without copying) and
\* leaves the live file, the backups, the Dictionary, the AliasIndex and the
\* memo unchanged, and releases the lock.
C17_RollbackNotFoundChangesNothing ==
    [][\A w \in Threads :
          (RollbackFindsNothing(w) /\ th'[w] # th[w]) =>
              /\ th'[w].pc = "idle"
              /\ lock' = "free"
              /\ UNCHANGED <<dict, index, memo, disk>>]_vars

\* a rollback is about to find no backup of its timestamp, while backups of
\* other timestamps exist and the memo holds an entry
C17_Witness ==
    \E w \in Threads :
        /\ RollbackFindsNothing(w)
        /\ lock = w
        /\ disk[th[w].t].backups # {}
        /\ Len(memo) > 0

\* the step is a call of rollback_to_backup that returns normally
RollbackSucceeds ==
    /\ hist'.rollbacks # hist.rollbacks
    /\ hist'.kind = "rollback"
    /\ hist'.ok

\* C18: after a successful rollback(file, T) the live file's content is the
\* content of backup T, the Dictionary of that type in memory is the parse
\* of that content, the AliasIndex is _build_index of that Dictionary, and
\* the memo is empty.
C18_RollbackInstallsBackup ==
    [][RollbackSucceeds =>
          /\ \E b \in disk[hist'.t].backups :
                /\ b.ts = hist'.ts
                /\ disk'[hist'.t].file.exists
                /\ disk'[hist'.t].file.text = b.text
                /\ dict'[hist'.t] = LoadDictionary(FileOf(b.text), JsonKey(hist'.t)).data
          /\ index'[hist'.t] = BuildIndex(dict'[hist'.t])
          /\ Len(memo') = 0]_vars

\* a rollback has succeeded and has changed the file, the Dictionary and the
\* index, while another backup with another content exists
C18_Witness ==
    /\ hist.kind = "rollback" /\ hist.ok
    /\ disk[hist.t].file.text # hist.preFile.text
    /\ index[hist.t] # hist.preIndex
    /\ \E b, c \in disk[hist.t].backups :
          /\ b.ts = hist.ts /\ c.ts # hist.ts /\ b.text # c.text
          /\ disk[hist.t].file.text = b.text

\* C19: rollback never creates, modifies or deletes a backup: no statement
\* that a thread executes inside rollback_to_backup, whether the call
\* succeeds or fails, changes the set of backups or their contents.
C19_RollbackKeepsBackups ==
    [][\A w \in Threads :
          (th[w].kind = "rollback" /\ InCritical(w) /\ th'[w] # th[w]) =>
              \A t \in Types : disk'[t].backups = disk[t].backups]_vars

\* a rollback has copied a backup over a live file of another content and
\* has not reloaded it yet; the backup is still there
C19_Witness ==
    \E w \in Threads :
        /\ th[w].kind = "rollback" /\ th[w].pc = "r_load"
        /\ \E b \in disk[th[w].t].backups :
              /\ b.ts = th[w].ts
              /\ disk[th[w].t].file.text = b.text
        /\ LoadDictionary(disk[th[w].t].file, JsonKey(th[w].t)).data # dict[th[w].t]

\* thread w is inside _save_dictionary, called by add_*_mapping or update_*
Saving(w) == th[w].kind \in {"add", "replace"} /\ th[w].pc \in SavePcs

\* C20: in a save whose target exists, the backup step leaves a backup
\* holding exactly the target's content and leaves the target alone, the
\* target stays untouched until the replace, and at the replace that backup
\* still holds the content being replaced; in a save whose target does not
\* exist the backup step creates nothing, and the replace writes the file.
C20_BackupBeforeModification ==
    [][\A w \in Threads :
          LET t == th[w].t
          IN  (Saving(w) /\ th'[w] # th[w]) =>
                /\ th[w].pc = "s_backup" =>
                      /\ disk'[t].file = disk[t].file
                      /\ IF disk[t].file.exists
                         THEN \E b \in disk'[t].backups :
                                 /\ b.ts = th'[w].bts
                                 /\ b.text = disk[t].file.text
                         ELSE /\ disk'[t].backups = disk[t].backups
                              /\ th'[w].bts = NoBackup
                /\ th[w].pc = "s_temp" =>
                      /\ disk'[t].file = disk[t].file
                      /\ disk'[t].backups = disk[t].backups
                /\ (th[w].pc = "s_replace" /\ th'[w].pc = "s_unlink") =>
                      /\ disk[t].file.exists =>
                            \E b \in disk[t].backups :
                               /\ b.ts = th[w].bts
                               /\ b.text = disk[t].file.text
                      /\ ~disk[t].file.exists => th[w].bts = NoBackup
                      /\ disk'[t].file.exists
                      /\ disk'[t].file.text = Serialize(JsonKey(t), dict[t])
                      /\ disk'[t].backups = disk[t].backups]_vars

\* a first save has created the university file, which had no backup to
\* make, and a second save has just replaced the company file, whose
\* previous content is in the backup it made
C20_Witness ==
    /\ disk["university"].file.exists
    /\ disk["university"].backups = {}
    /\ \E w \in Threads :
          /\ Saving(w) /\ th[w].pc = "s_unlink" /\ th[w].t = "company"
          /\ \E b \in disk["company"].backups :
                /\ b.ts = th[w].bts
                /\ b.text # disk["company"].file.text
                /\ b.text = Serialize(JsonKey("company"), D_one)

(***************************************************************************)
(* A service whose backup directory is nearly full or full: the saves of    *)
(* earlier runs left MAX_BACKUPS - 1 or MAX_BACKUPS backups of each file    *)
(* that exists.  Their timestamps are seconds before this run started       *)
(* (negative, below NoBackup).                                              *)
(***************************************************************************)
OldBackups(t, k) ==
    {[ts |-> 0 - (i + 1),
      text |-> Serialize(JsonKey(t), IF i % 2 = 0 THEN D_one ELSE D_far),
      mtime |-> 0] : i \in 1..k}

OldDisk(t, file, k) ==
    [FreshDisk(file) EXCEPT !.backups = IF file.exists THEN OldBackups(t, k) ELSE {}]

InitPrune ==
    \E fc \in InitFiles("company"), fu \in InitFiles("university"),
       k \in {MAX_BACKUPS - 1, MAX_BACKUPS} :
        LET d0 == [t \in Types |-> OldDisk(t, IF t = "company" THEN fc ELSE fu, k)]
            ld == [t \in Types |-> LoadDictionaryWithCache(d0[t], JsonKey(t), 1)]
        IN  /\ dict = [t \in Types |-> ld[t].data]
            /\ index = [t \in Types |-> BuildIndex(ld[t].data)]
            /\ memo = EmptyMemo
            /\ disk = [t \in Types |-> ld[t].disk]
            /\ clock = 1
            /\ lock = "free"
            /\ th = [w \in Threads |-> IdleThread]
            /\ rd = IdleReader
            /\ hist = NoHist

(***************************************************************************)
(* The names of the backup files, which all lie in one directory:           *)
(* "<filename>.<YYYYmmdd_HHMMSS>.bak".  A stamp is the digits that strftime  *)
(* writes for a second (fixed width; two digits here, counted from          *)
(* StampEpoch seconds before the start).                                    *)
(***************************************************************************)
StampEpoch == 20

FileNameOf(t) == IF t = "company" THEN "companies.json" ELSE "universities.json"

\* datetime.now().strftime("%Y%m%d_%H%M%S")
Stamp(ts) == << (ts + StampEpoch) \div 10, (ts + StampEpoch) % 10 >>

\* the second a stamp names
SecondOfStamp(stamp) == stamp[1] * 10 + stamp[2] - StampEpoch

\* backup_dir / f"{filename}.{timestamp}.bak"
BackupName(filename, stamp) == [file |-> filename, stamp |-> stamp, ext |-> "bak"]

\* the backups directory: the backup files of both dictionary files
BackupDir ==
    UNION {{[name |-> BackupName(FileNameOf(t), Stamp(b.ts)), mtime |-> b.mtime] :
               b \in disk[t].backups} : t \in Types}

\* a glob that takes every backup file, whatever file it is a backup of
GlobAny(name, filename) == name.ext = "bak"

\* backup_dir.glob(f"{filename}.*.bak")
GlobMatches(name, filename) == name.file = filename /\ name.ext = "bak"

\* the order of str on two stamps
StampLess(a, b) == a[1] < b[1] \/ (a[1] = b[1] /\ a[2] < b[2])

\* sorted(..., reverse=True) of files, by name
RECURSIVE SortedReverse(_)
SortedReverse(files) ==
    IF files = {} THEN << >>
    ELSE LET top == CHOOSE f \in files :
                        \A g \in files : ~StampLess(f.name.stamp, g.name.stamp)
         IN  <<top>> \o SortedReverse(files \ {top})

\* list_backups(filename): timestamp = backup_path.stem.split('.')[-1]
ListBackups(filename) ==
    LET found == SortedReverse({f \in BackupDir : GlobMatches(f.name, filename)})
    IN  [i \in 1..Len(found) |->
            [timestamp |-> found[i].name.stamp, modified |-> found[i].mtime]]

\* list_backups, as one step
ListBackupsCall(t) ==
    /\ Quiet
    /\ hist.kind # "list" \/ hist.t # t
    /\ hist' = [hist EXCEPT !.kind = "list", !.t = t, !.ok = TRUE,
                            !.results = ListBackups(FileNameOf(t))]
    /\ UNCHANGED <<dict, index, memo, disk, clock, lock, th, rd>>

\* the timestamps a caller of rollback_to_backup may give: the oldest and
\* the newest of the old backups, and the seconds of this run
SomeTimestamps == {0 - MAX_BACKUPS - 1, 0 - 2} \cup Timestamps

\* add_*_mapping, list_backups and rollback_to_backup on the full directory
NextList ==
    \/ \E t \in Types : \E p \in AddPairs(t) : AddMapping(t, p[1], p[2], "none")
    \/ \E t \in Types : ListBackupsCall(t)
    \/ \E t \in Types, ts \in SomeTimestamps : Rollback(t, ts)
    \/ \E t \in Types, ts \in SomeTimestamps : RollbackNotFound(t, ts)
    \/ Tick

SpecList == InitPrune /\ [][NextList]_vars

NextPrune ==
    \/ \E t \in Types, f \in FailPoints : \E p \in AddPairs(t) : AddMapping(t, p[1], p[2], f)
    \/ \E t \in Types, f \in FailPoints : \E d \in ReplaceDicts(t) : ReplaceDictionary(t, d, f)
    \/ Tick

SpecPrune == InitPrune /\ [][NextPrune]_vars

\* a step that is one call of _save_dictionary, whether it raises or not
SaveStep == hist'.ops # hist.ops /\ hist'.kind \in {"add", "replace"}

\* the backups of type t a save at this moment has to choose from: those
\* there, and the copy it makes of the file (under this second's name)
BackupCandidates(t) ==
    IF disk[t].file.exists
    THEN {b \in disk[t].backups : b.ts # SecondOf(clock)}
         \cup {[ts |-> SecondOf(clock), text |-> disk[t].file.text,
                mtime |-> disk[t].file.mtime]}
    ELSE disk[t].backups

Min2(x, y) == IF x <= y THEN x ELSE y

\* C21: after every save the saved file has at most MAX_BACKUPS backups,
\* they are the most recent of the candidates by timestamp (every deleted
\* one is older than every retained one), and the backups of the other
\* file are the same as before.
C21_PruneKeepsNewest ==
    [][SaveStep =>
          LET t == hist'.t
              after == disk'[t].backups
              cand == BackupCandidates(t)
          IN  /\ Cardinality(after) <= MAX_BACKUPS
              /\ after \subseteq cand
              /\ Cardinality(after) = Min2(Cardinality(cand), MAX_BACKUPS)
              /\ \A b \in cand \ after : \A c \in after : b.ts < c.ts
              /\ \A u \in Types \ {t} : disk'[u].backups = disk[u].backups]_vars

\* a save of the company file has deleted the backup of 10 seconds before
\* the start, kept the one of 9 seconds before, and left MAX_BACKUPS
\* backups with its own among them
C21_Witness ==
    /\ hist.kind \in {"add", "replace"} /\ hist.t = "company"
    /\ ~HasBackup(disk["company"], 0 - MAX_BACKUPS)
    /\ HasBackup(disk["company"], 1 - MAX_BACKUPS)
    /\ HasBackup(disk["company"], hist.bts) /\ hist.bts >= 0
    /\ Cardinality(disk["company"].backups) = MAX_BACKUPS
    /\ disk["university"].backups # {}

\* a step that is a call of add_*_mapping or update_* whose save returned
SaveSucceeds ==
    /\ hist'.ops # hist.ops
    /\ hist'.kind \in {"add", "replace"}
    /\ hist'.ok

\* C22: after every successful save of a file no cache snapshot of that file
\* exists, so that a cold load made then parses the file that was saved: it
\* yields the Dictionary the service holds and writes a new snapshot.
C22_NoSnapshotAfterSave ==
    [][SaveSucceeds =>
          LET t == hist'.t
              cold == LoadDictionaryWithCache(disk'[t], JsonKey(t), clock')
          IN  /\ disk'[t].cache.exists = FALSE
              /\ cold.ok
              /\ cold.data = LoadDictionary(disk'[t].file, JsonKey(t)).data
              /\ cold.data = dict'[t]
              /\ cold.disk.cache.exists]_vars

\* the first mutation of the run, a save of the company file, whose snapshot
\* the start had written, has succeeded and the snapshot is gone
C22_Witness ==
    /\ hist.kind \in {"add", "replace"} /\ hist.ok
    /\ hist.t = "company" /\ hist.ops = 1 /\ hist.rollbacks = 0
    /\ ~disk["company"].cache.exists
    /\ disk["company"].file.text # hist.preFile.text
    /\ disk["university"].cache.exists

\* a cache file of type t that cannot be used: it does not unpickle, cannot
\* be read, has no payload, or carries another version tag
BadSnapshot(c) ==
    /\ c.exists
    /\ c.version # "v2" \/ ~c.hasData

\* the load of type t, in a step that starts the service, does what it would
\* do with no cache file: it parses the file, fails only with the error of
\* the parse, and on success returns the parsed Dictionary and writes a
\* snapshot of it
LoadsAsWithoutCache(t) ==
    LET parse == LoadDictionary(disk[t].file, JsonKey(t))
        bare == LoadDictionaryWithCache([disk[t] EXCEPT !.cache = NoCache], JsonKey(t), clock)
    IN  /\ bare.ok = parse.ok
        /\ IF parse.ok
           THEN /\ hist'.ok => dict'[t] = parse.data
                /\ hist'.ok => index'[t] = BuildIndex(parse.data)
                /\ disk'[t] = bare.disk
           ELSE /\ ~hist'.ok
                /\ hist'.error = parse.error
                /\ disk'[t] = disk[t]

\* C23: a cache file that is corrupt, unreadable, without payload or of
\* another version never makes the load fail: the load of that type returns
\* the Dictionary parsed from the source file (or fails with the parse's
\* error), exactly as if there were no cache file.
C23_BadSnapshotIsAMiss ==
    [][(hist.kind = "boot" /\ hist'.kind = "start") =>
          /\ BadSnapshot(disk["company"].cache) => LoadsAsWithoutCache("company")
          /\ (/\ BadSnapshot(disk["university"].cache)
              /\ (SnapshotNewer("company")
                    \/ LoadDictionary(disk["company"].file, JsonKey("company")).ok))
             => LoadsAsWithoutCache("university")]_vars

\* the service has started on a company cache file that was newer than the
\* source file but had no payload, and on a university cache file of an old
\* version: both Dictionaries are the parsed files, not the caches' payload
C23_Witness ==
    /\ hist.kind = "start" /\ hist.ok
    /\ hist.preCache["company"] = NoPayload(2)
    /\ hist.preCache["university"] = CacheOf("v1", 2)
    /\ \A t \in Types :
          /\ disk[t].file.exists
          /\ hist.preCache[t].mtime > disk[t].file.mtime
          /\ dict[t] = LoadDictionary(disk[t].file, JsonKey(t)).data
          /\ dict[t] # CacheOf("v1", 2).data
          /\ disk[t].cache.version = "v2" /\ disk[t].cache.data = dict[t]

(***************************************************************************)
(* search_companies / search_universities and validate_dictionary: the      *)
(* read operations that walk the Dictionary.                                *)
(***************************************************************************)
\* q in s, for strings
Contains(s, q) ==
    \E i \in 0..(Len(s) - Len(q)) : SubSeq(s, i + 1, i + Len(q)) = q

\* the inner loop of search: for alias in info.get('aliases', [])
RECURSIVE SearchAliases(_, _, _, _, _)
SearchAliases(results, entry, aliases, q, limit) ==
    IF aliases = << >> THEN results
    ELSE IF Contains(Lower(Head(aliases)), q)
         THEN IF Len(results) + 1 >= limit THEN Append(results, entry)
              ELSE SearchAliases(Append(results, entry), entry, Tail(aliases), q, limit)
         ELSE SearchAliases(results, entry, Tail(aliases), q, limit)

\* the outer loop of search: for standard, info in self.companies.items()
RECURSIVE SearchFrom(_, _, _, _)
SearchFrom(results, d, q, limit) ==
    IF d = << >> THEN results
    ELSE IF Contains(Lower(Head(d).standard), q)
         THEN IF Len(results) + 1 >= limit THEN Append(results, Head(d))
              ELSE SearchFrom(Append(results, Head(d)), Tail(d), q, limit)
         ELSE LET r == SearchAliases(results, Head(d), Head(d).aliases, q, limit)
              IN  IF Len(r) >= limit THEN r ELSE SearchFrom(r, Tail(d), q, limit)

\* search_companies(query, limit) / search_universities(query, limit)
Search(d, query, limit) == SearchFrom(<< >>, d, Lower(query), limit)

\* str.strip() leaves nothing
RECURSIVE IsBlank(_)
IsBlank(s) == s = << >> \/ (Head(s) = " " /\ IsBlank(Tail(s)))

\* validate: for alias in aliases, with the seen_aliases dict and the
\* duplicate_aliases list; st is the pair of them
RECURSIVE CheckAliases(_, _, _)
CheckAliases(st, aliases, standard) ==
    IF aliases = << >> THEN st
    ELSE LET al == Lower(Head(aliases))
             dup == IF IndexHas(st.seen, al)
                    THEN Append(st.dup, [alias |-> Head(aliases),
                                         existing |-> IndexGet(st.seen, al),
                                         standard |-> standard])
                    ELSE st.dup
         IN  CheckAliases([seen |-> IndexPut(st.seen, al, standard), dup |-> dup],
                          Tail(aliases), standard)

\* validate: any(c in standard for c in ['/', '\\', '|', '<', '>'])
SuspiciousChars == {"/", "\\", "|", "<", ">"}

Suspicious(standard) == \E i \in 1..Len(standard) : standard[i] \in SuspiciousChars

\* validate: for standard, info in self.companies.items()
RECURSIVE CheckEntries(_, _)
CheckEntries(st, d) ==
    IF d = << >> THEN st
    ELSE LET e == Head(d)
             a == CheckAliases([seen |-> st.seen, dup |-> st.dup], e.aliases, e.standard)
         IN  CheckEntries(
                [seen |-> a.seen, dup |-> a.dup,
                 emptyStandard |-> IF IsBlank(e.standard)
                                   THEN Append(st.emptyStandard, e.standard)
                                   ELSE st.emptyStandard,
                 emptyAliases |-> IF e.aliases = << >>
                                  THEN Append(st.emptyAliases, e.standard)
                                  ELSE st.emptyAliases,
                 suspicious |-> IF Suspicious(e.standard)
                                THEN Append(st.suspicious, e.standard)
                                ELSE st.suspicious],
                Tail(d))

\* the issues of one dictionary type; seen_aliases starts empty for each type
IssuesOf(t, d) ==
    LET st == CheckEntries([seen |-> << >>, dup |-> << >>,
                            emptyStandard |-> << >>, emptyAliases |-> << >>,
                            suspicious |-> << >>], d)
    IN  [empty_standard |-> [i \in 1..Len(st.emptyStandard) |-> [type |-> t]],
         empty_aliases |-> [i \in 1..Len(st.emptyAliases) |->
                               [type |-> t, standard |-> st.emptyAliases[i]]],
         duplicate_aliases |-> [i \in 1..Len(st.dup) |->
                                   [type |-> t, alias |-> st.dup[i].alias,
                                    existing |-> st.dup[i].existing,
                                    standard |-> st.dup[i].standard]],
         suspicious_standard |-> [i \in 1..Len(st.suspicious) |->
                                     [type |-> t, standard |-> st.suspicious[i]]]]

\* validate: the issues dict when both loops are over: the companies'
\* findings, then the universities'
AllIssues(dc, du) ==
    LET c == IssuesOf("company", dc)
        u == IssuesOf("university", du)
    IN  [empty_standard |-> c.empty_standard \o u.empty_standard,
         empty_aliases |-> c.empty_aliases \o u.empty_aliases,
         duplicate_aliases |-> c.duplicate_aliases \o u.duplicate_aliases,
         suspicious_standard |-> c.suspicious_standard \o u.suspicious_standard]

KeepAll(issues) == issues

\* validate: {k: v for k, v in issues.items() if v}
KeepFindings(issues) ==
    [k \in {c \in DOMAIN issues : issues[c] # << >>} |-> issues[k]]

\* validate_dictionary
ValidateDictionary(dc, du) == KeepFindings(AllIssues(dc, du))

(***************************************************************************)
(* A service that holds one of a few Dictionaries (update_* installed it)   *)
(* and is asked to search and to validate, between calls of add_*_mapping.  *)
(***************************************************************************)
MaxLimit == 3

D_three == << Entry(s_ab, <<s_ab, s_b>>), Entry(s_aba, <<s_aba, s_b>>), Entry(s_b, <<s_b>>) >>
D_variants == << Entry(s_ab, <<s_ab, s_AB>>), Entry(s_b, <<s_b>>) >>
D_multi == << Entry(s_b, <<s_ab, s_aba>>), Entry(s_ab, <<s_ab>>), Entry(s_blank, << >>) >>

D_hollow == << Entry(s_ab, <<s_empty, s_ab>>) >>

s_slash == <<"a", "/">>
s_angle == <<"<", "b", ">">>
D_odd == << Entry(s_slash, <<s_slash>>), Entry(s_angle, << >>), Entry(s_ab, <<s_ab>>) >>

ReadDicts(t) ==
    IF t = "company" THEN {D_one, D_coll, D_three, D_variants, D_multi, D_odd, D_hollow}
    ELSE {<< >>, D_three, D_blank}

SearchQueries == {s_empty, s_a, s_b, s_AB}

Limits == 0..MaxLimit

\* the state after update_companies(dc) and update_universities(du)
InitRead ==
    \E dc \in ReadDicts("company"), du \in ReadDicts("university") :
        LET d == [t \in Types |-> IF t = "company" THEN dc ELSE du]
        IN  /\ dict = d
            /\ index = [t \in Types |-> BuildIndex(d[t])]
            /\ memo = EmptyMemo
            /\ disk = [t \in Types |->
                         FreshDisk([exists |-> TRUE, text |-> Serialize(JsonKey(t), d[t]),
                                    mtime |-> 1])]
            /\ clock = 1
            /\ lock = "free"
            /\ th = [w \in Threads |-> IdleThread]
            /\ rd = IdleReader
            /\ hist = NoHist

\* search_companies / search_universities, as one step
SearchCall(t, query, limit) ==
    /\ Quiet
    /\ hist' = [hist EXCEPT !.kind = "search", !.t = t, !.ok = TRUE, !.query = query,
                            !.limit = limit, !.results = Search(dict[t], query, limit),
                            !.issues = NoHist.issues]
    /\ UNCHANGED <<dict, index, memo, disk, clock, lock, th, rd>>

\* validate_dictionary, as one step
ValidateCall ==
    /\ Quiet
    /\ hist' = [hist EXCEPT !.kind = "validate", !.ok = TRUE, !.query = << >>,
                            !.limit = 0, !.results = << >>,
                            !.issues = ValidateDictionary(dict["company"], dict["university"])]
    /\ UNCHANGED <<dict, index, memo, disk, clock, lock, th, rd>>

NormalizeNames == {s_empty, s_a}

\* normalize_company(name, threshold) / normalize_university(name, threshold),
\* as one step
NormalizeCall(t, name, threshold) ==
    /\ Quiet
    /\ memo' = MemoAfter(t, name, threshold)
    /\ hist' = [hist EXCEPT !.kind = "normalize", !.t = t, !.ok = TRUE, !.query = name,
                            !.threshold = threshold, !.limit = 0, !.issues = NoHist.issues,
                            !.results = NormalizeNow(t, name, threshold)]
    /\ UNCHANGED <<dict, index, disk, clock, lock, th, rd>>

NextRead ==
    \/ \E t \in Types, q \in SearchQueries, n \in Limits : SearchCall(t, q, n)
    \/ ValidateCall
    \/ \E t \in Types : \E p \in AddPairs(t) : AddMapping(t, p[1], p[2], "none")

SpecRead == InitRead /\ [][NextRead]_vars

\* the same service, asked to normalize names between calls of add_*_mapping
NextNormalize ==
    \/ \E t \in Types, q \in NormalizeNames, thr \in Thresholds : NormalizeCall(t, q, thr)
    \/ \E t \in Types : \E p \in AddPairs(t) : AddMapping(t, p[1], p[2], "none")

SpecNormalize == InitRead /\ [][NextNormalize]_vars

\* the duplicate_aliases findings of the last validate, for type t
Duplicates(t) ==
    IF "duplicate_aliases" \in DOMAIN hist.issues
    THEN SelectSeq(hist.issues.duplicate_aliases, LAMBDA f : f.type = t)
    ELSE << >>

\* the first entry of d, in iteration order, that lists alias a (whatever the case)
FirstOwner(d, a) ==
    d[CHOOSE i \in 1..Len(d) :
         /\ \E j \in 1..Len(d[i].aliases) : Lower(d[i].aliases[j]) = Lower(a)
         /\ \A k \in 1..(i - 1) :
               \A j \in 1..Len(d[k].aliases) : Lower(d[k].aliases[j]) # Lower(a)].standard

\* C24: every duplicate_aliases finding of validate names, as the existing
\* owner of the alias, the first standard in iteration order that lists it.
C24_FindingNamesFirstOwner ==
    hist.kind = "validate" =>
        \A t \in Types :
            \A i \in 1..Len(Duplicates(t)) :
                Duplicates(t)[i].existing = FirstOwner(dict[t], Duplicates(t)[i].alias)

\* no two different standards of d list the same alias, compared without case
NoSharedAlias(d) ==
    \A i, k \in 1..Len(d) :
        i # k => \A j \in 1..Len(d[i].aliases), l \in 1..Len(d[k].aliases) :
                    Lower(d[i].aliases[j]) # Lower(d[k].aliases[l])

\* C25: validate reports no duplicate_aliases finding for a Dictionary in
\* which no two different standards share an alias (compared without case),
\* even if one entry lists case variants of one alias.
C25_NoFindingWithoutSharedAlias ==
    hist.kind = "validate" =>
        \A t \in Types : NoSharedAlias(dict[t]) => Len(Duplicates(t)) = 0

\* C26: search(query, limit) never returns more than limit entries.
C26_SearchAtMostLimit ==
    hist.kind = "search" => Len(hist.results) <= hist.limit

\* entry e matches q: its standard or one of its aliases contains q, without case
Matches(e, q) ==
    \/ Contains(Lower(e.standard), Lower(q))
    \/ \E j \in 1..Len(e.aliases) : Contains(Lower(e.aliases[j]), Lower(q))

MatchingEntries(d, q) == SelectSeq(d, LAMBDA e : Matches(e, q))

\* C27: search(query, limit) returns exactly the first min(limit, number of
\* matches) matching entries in iteration order, each once.
C27_SearchReturnsFirstMatches ==
    hist.kind = "search" =>
        LET m == MatchingEntries(dict[hist.t], hist.query)
        IN  hist.results = SubSeq(m, 1, Min2(hist.limit, Len(m)))

\* the same for the calls with a limit of at least 1 and Dictionaries whose
\* entries each match by at most one alias when not by their standard
C27_Scope ==
    (hist.kind = "search" /\ hist.limit >= 1
       /\ \A i \in 1..Len(dict[hist.t]) :
             LET e == dict[hist.t][i]
             IN  \/ Contains(Lower(e.standard), Lower(hist.query))
                 \/ Cardinality({j \in 1..Len(e.aliases) :
                                    Contains(Lower(e.aliases[j]), Lower(hist.query))}) <= 1) =>
        LET m == MatchingEntries(dict[hist.t], hist.query)
        IN  hist.results = SubSeq(m, 1, Min2(hist.limit, Len(m)))

\* a step that is a call of add_*_mapping, whether its save raises or not
AddStep == hist'.ops # hist.ops /\ hist'.kind = "add"

\* how many elements of seq are exactly x
CountOf(seq, x) == Cardinality({j \in 1..Len(seq) : seq[j] = x})

\* C29: add_*_mapping(alias, standard) appends alias to the alias list of
\* standard if and only if no element of the list is exactly equal to it; a
\* standard created by the call is the last entry and has itself as its
\* first alias; the call adds no second copy of a string to the list; the
\* other entries are left as they were.
C29_AddAppendsUnlessPresent ==
    [][AddStep =>
          LET t == hist'.t
              a == hist'.alias
              s == hist'.standard
              pre == dict[t]
              post == dict'[t]
              old == IF DictHas(pre, s) THEN DictGet(pre, s).aliases ELSE <<s>>
              new == DictGet(post, s).aliases
          IN  /\ DictHas(post, s)
              /\ IF DictHas(pre, s)
                 THEN /\ Len(post) = Len(pre)
                      /\ DictPos(post, s) = DictPos(pre, s)
                 ELSE /\ Len(post) = Len(pre) + 1
                      /\ DictPos(post, s) = Len(post)
                      /\ new[1] = s
              /\ \A i \in 1..Len(pre) : pre[i].standard # s => post[i] = pre[i]
              /\ new = IF \E j \in 1..Len(old) : old[j] = a THEN old ELSE old \o <<a>>
              /\ CountOf(new, a) = IF CountOf(old, a) = 0 THEN 1 ELSE CountOf(old, a)]_vars

\* an add has created a standard, with itself and then the alias in its
\* list, after an earlier add had put the case variant "AB" next to "Ab" in
\* the list of the company "Ab"
C29_Witness ==
    /\ hist.kind = "add" /\ hist.isNew /\ hist.ops = 2
    /\ DictGet(dict[hist.t], hist.standard).aliases = <<hist.standard, hist.alias>>
    /\ DictHas(dict["company"], s_Ab)
    /\ DictGet(dict["company"], s_Ab).aliases = <<s_Ab, s_AB>>

\* in the state a start leaves, normalize returns every name as it is given
PassesThrough(t) ==
    \A q \in Queries : \A th0 \in Thresholds :
        NormalizeIn(index'[t], memo', t, q, th0) = q

ScanOps == {"search", "validate", "statistics"}

ScanWriters == {"w1"}

\* the dict object the walk is in
ScannedDict == IF rd.live THEN dict[rd.t] ELSE rd.held

\* an entry was created by add_*_mapping and its alias is not appended yet
Incomplete(t) ==
    \E w \in Threads :
        /\ th[w].pc = "a_alias" /\ th[w].t = t
        /\ th[w].created /\ th[w].alias # th[w].standard

\* get_statistics of a Dictionary: the standards and the aliases it counts
StatsOf(d, n) ==
    LET RECURSIVE Total(_)
        Total(seq) == IF seq = << >> THEN 0 ELSE Len(Head(seq).aliases) + Total(Tail(seq))
    IN  [standards |-> n, aliases |-> Total(d)]

\* the call ends: it saw the entries obs and computed stats from them; was
\* that one of the Dictionaries that were current during the call?
ScanReturned(obs, stats) ==
    [IdleReader EXCEPT !.pc = "done", !.op = rd.op, !.t = rd.t, !.obs = obs,
                       !.stats = stats,
                       !.consistent =
                           IF rd.op = "statistics"
                           THEN \E d \in rd.seen : stats = StatsOf(d, Len(d))
                           ELSE obs \in rd.seen]

\* the call ends with RuntimeError: dictionary changed size during iteration
ScanRaised == [IdleReader EXCEPT !.pc = "raised", !.op = rd.op, !.t = rd.t,
                                 !.obs = rd.obs, !.consistent = FALSE]

\* for standard, info in self.companies.items(): the iterator is made
ScanCall(op, t) ==
    /\ rd.pc \in {"idle", "done", "raised"}
    /\ hist.reads < MaxReads
    /\ hist' = [hist EXCEPT !.reads = @ + 1]
    /\ rd' = [IdleReader EXCEPT !.op = op, !.t = t, !.pc = "c_next", !.live = TRUE,
                                !.size = Len(dict[t]),
                                !.seen = IF Incomplete(t) THEN {} ELSE {dict[t]}]
    /\ UNCHANGED <<dict, index, memo, disk, clock, lock, th>>

\* the iterator's next step: RuntimeError, the end of the loop, or an entry
ScanNext ==
    /\ rd.pc = "c_next"
    /\ rd' = IF Len(ScannedDict) # rd.size THEN ScanRaised
             ELSE IF rd.pos = rd.size
             THEN IF rd.op = "statistics" THEN [rd EXCEPT !.pc = "c_len"]
                  ELSE ScanReturned(rd.obs, rd.stats)
             ELSE [rd EXCEPT !.pc = "c_entry", !.pos = @ + 1]
    /\ UNCHANGED <<dict, index, memo, disk, clock, lock, th, hist>>

\* info.get('aliases', []): the entry's alias list is read
ScanEntry ==
    /\ rd.pc = "c_entry"
    /\ rd' = [rd EXCEPT !.pc = "c_next", !.obs = Append(@, ScannedDict[rd.pos])]
    /\ UNCHANGED <<dict, index, memo, disk, clock, lock, th, hist>>

\* get_statistics: len(self.companies), read after the sum
ScanLen ==
    /\ rd.pc = "c_len"
    /\ rd' = ScanReturned(rd.obs, StatsOf(rd.obs, Len(dict[rd.t])))
    /\ UNCHANGED <<dict, index, memo, disk, clock, lock, th, hist>>

InitScan ==
    /\ Init
    /\ dict["company"] = D_coll
    /\ ~disk["university"].file.exists

NextScan ==
    \/ \E w \in ScanWriters, t \in Types : \E p \in AddPairs(t) :
          Acquire(w, "add", t, p[1], p[2], << >>, NoBackup)
    \/ \E w \in ScanWriters, t \in Types : \E d \in ReplaceDicts(t) :
          Acquire(w, "replace", t, << >>, << >>, d, NoBackup)
    \/ \E w \in ScanWriters :
          \/ Call(w)
          \/ StepAddEntry(w) \/ StepAppendAlias(w) \/ StepAddIndex(w)
          \/ StepSetDict(w) \/ StepSetIndex(w)
          \/ StepBackup(w) \/ StepTemp(w) \/ StepReplace(w) \/ StepUnlink(w)
          \/ StepClear(w)
    \/ \E op \in ScanOps, t \in Types : ScanCall(op, t)
    \/ ScanNext \/ ScanEntry \/ ScanLen

SpecScan == InitScan /\ [][NextScan]_vars

\* C28: a search, validate or get_statistics call that runs while a thread
\* mutates ends without error, and what it saw is one of the complete
\* Dictionaries that were current during the call (the one before or the
\* one after a mutation), never a mixture or an intermediate one.
C28_ScanSeesWholeDictionary ==
    (rd.op \in ScanOps /\ rd.pc \in {"done", "raised"}) =>
        /\ rd.pc = "done"
        /\ rd.consistent

\* the same for the calls that end without error
C28_NoIntermediate ==
    (rd.op \in ScanOps /\ rd.pc = "done") => rd.consistent

\* C31: list_backups(file) returns the backups of that file only, each once,
\* newest timestamp first, and as long as no save has run since, every
\* timestamp it returned names a backup file that rollback_to_backup(file,
\* timestamp) finds (no FileNotFoundError).
C31_ListedBackupsCanBeRolledBack ==
    hist.kind = "list" =>
        LET t == hist.t
            r == hist.results
        IN  /\ {r[i].timestamp : i \in 1..Len(r)} = {Stamp(b.ts) : b \in disk[t].backups}
            /\ Len(r) = Cardinality(disk[t].backups)
            /\ \A i, j \in 1..Len(r) :
                  i < j => SecondOfStamp(r[i].timestamp) > SecondOfStamp(r[j].timestamp)
            /\ \A i \in 1..Len(r) :
                  /\ \E f \in BackupDir :
                        f.name = BackupName(FileNameOf(t), r[i].timestamp)
                  /\ HasBackup(disk[t], SecondOfStamp(r[i].timestamp))

\* list_backups of the company file has returned MAX_BACKUPS backups, the
\* first of them made by a save of this run, while the university file has
\* backups of its own in the same directory
C31_Witness ==
    /\ hist.kind = "list" /\ hist.t = "company"
    /\ Len(hist.results) = MAX_BACKUPS
    /\ SecondOfStamp(hist.results[1].timestamp) >= 0
    /\ SecondOfStamp(hist.results[MAX_BACKUPS].timestamp) < 0
    /\ disk["university"].backups # {}
    /\ hist.ops > 0

\* the categories of findings that validate can report
Categories == {"empty_standard", "empty_aliases", "duplicate_aliases", "suspicious_standard"}

\* the findings of category c that the last validate returned, for type t
Findings(c, t) ==
    IF c \in DOMAIN hist.issues THEN SelectSeq(hist.issues[c], LAMBDA f : f.type = t)
    ELSE << >>

\* the standards of Dictionary d that satisfy P, in iteration order
StandardsWhere(d, P(_)) ==
    LET sel == SelectSeq(d, P) IN [i \in 1..Len(sel) |-> sel[i].standard]

\* C32: the result of validate has a key for a category if and only if the
\* category has at least one finding; every entry with a blank standard gives
\* an empty_standard finding, every entry with no alias an empty_aliases
\* finding, and every standard containing one of / \ | < > a
\* suspicious_standard finding.
C32_CategoriesAndFindings ==
    hist.kind = "validate" =>
        /\ DOMAIN hist.issues \subseteq Categories
        /\ \A c \in DOMAIN hist.issues : hist.issues[c] # << >>
        /\ \A c \in Categories :
              c \in DOMAIN hist.issues <=>
                 AllIssues(dict["company"], dict["university"])[c] # << >>
        /\ \A t \in Types :
              /\ Len(Findings("empty_standard", t))
                    = Len(SelectSeq(dict[t], LAMBDA e : IsBlank(e.standard)))
              /\ [i \in 1..Len(Findings("empty_aliases", t)) |->
                     Findings("empty_aliases", t)[i].standard]
                    = StandardsWhere(dict[t], LAMBDA e : e.aliases = << >>)
              /\ [i \in 1..Len(Findings("suspicious_standard", t)) |->
                     Findings("suspicious_standard", t)[i].standard]
                    = StandardsWhere(dict[t],
                         LAMBDA e : \E i \in 1..Len(e.standard) :
                                       e.standard[i] \in {"/", "\\", "|", "<", ">"})

\* validate has run, after a call of add_*_mapping, on a company Dictionary
\* with two suspicious standards and one entry without aliases and on a
\* university Dictionary with no finding but shared aliases: two categories
\* are absent, suspicious_standard has the two standards in order
C32_Witness ==
    /\ hist.kind = "validate" /\ hist.ops > 0
    /\ DOMAIN hist.issues = {"empty_aliases", "duplicate_aliases", "suspicious_standard"}
    /\ Len(Findings("suspicious_standard", "company")) = 2
    /\ Findings("suspicious_standard", "company")[1].standard = s_slash
    /\ Findings("empty_aliases", "company")[1].standard = s_angle
    /\ Len(Findings("duplicate_aliases", "university")) > 0

\* C33: normalize of the empty string returns the empty string, for both
\* dictionary types, every threshold and every Dictionary, one with an
\* empty-string standard or alias included.
C33_NormalizeEmptyIsEmpty ==
    /\ (hist.kind = "normalize" /\ hist.query = s_empty) => hist.results = s_empty
    /\ \A t \in Types, thr \in Thresholds : NormalizeNow(t, s_empty, thr) = s_empty

\* normalize_university("") has returned "" although the empty string is a
\* key of the university index (an empty standard) and, in the company
\* Dictionary, an alias of a standard
C33_Witness ==
    /\ hist.kind = "normalize" /\ hist.query = s_empty /\ hist.results = s_empty
    /\ hist.t = "university" /\ hist.threshold = 60
    /\ DictHas(dict["university"], s_empty)
    /\ IndexHas(index["university"], s_empty)
    /\ IndexHas(index["company"], s_empty) /\ IndexGet(index["company"], s_empty) = s_ab
    /\ hist.ops > 0

\* memo entry e is what _fuzzy_match_cached would compute now for its key
FreshEntry(e) ==
    LET query == e.key[1]
        t == e.key[2]
        threshold == e.key[3]
    IN  e.value = FuzzyMatch(IndexKeys(index[t]), index[t], query, threshold)

\* C34: whenever no mutation is in progress, every entry of the memo equals
\* the result that a fresh fuzzy match of its query would compute against the
\* current AliasIndex of its type, also after a mutation whose save raised.
C34_MemoMatchesIndex ==
    (lock = "free" /\ \A w \in Threads : th[w].pc = "idle") =>
        \A i \in 1..Len(memo) : FreshEntry(memo[i])

\* C35: whenever the load would accept the cache snapshot of a type as
\* valid, the snapshot's payload is the Dictionary that parsing the current
\* source file gives, so that a restart after a rollback or after a failed
\* save loads the restored content and not an older snapshot.
C35_ValidSnapshotIsTheFile ==
    \A t \in Types :
        CacheValid(disk[t]) =>
            /\ LoadDictionary(disk[t].file, JsonKey(t)).ok
            /\ disk[t].cache.data = LoadDictionary(disk[t].file, JsonKey(t)).data

\* C36: after every successful add_*_mapping, update_* or rollback, the live
\* file of that type parses to exactly the in-memory Dictionary of that type,
\* also when earlier mutations failed to persist.
C36_DiskAgreesAfterSuccess ==
    [][MutationSucceeds =>
          LET parse == LoadDictionary(disk'[hist'.t].file, JsonKey(hist'.t))
          IN  parse.ok /\ parse.data = dict'[hist'.t]]_vars

\* an add has succeeded after a mutation whose save had failed and had left
\* the in-memory Dictionary different from the file; now the file parses to
\* the Dictionary, which has the entries of both calls
C36_Witness ==
    /\ hist.kind = "add" /\ hist.ok /\ hist.failures > 0
    /\ LoadDictionary(hist.preFile, JsonKey(hist.t)).ok
    /\ LoadDictionary(hist.preFile, JsonKey(hist.t)).data # hist.preDict
    /\ LoadDictionary(disk[hist.t].file, JsonKey(hist.t)).data = dict[hist.t]
    /\ dict[hist.t] # hist.preDict

\* the key-to-standard pairs of an index
PairsOf(idx) == {<<idx[i].key, idx[i].standard>> : i \in 1..Len(idx)}

\* C37: after every successful add_*_mapping the incrementally updated index
\* has the same keys and the same key-to-standard mapping as _build_index
\* applied to the resulting Dictionary, also when the added alias already
\* belongs, without regard to case, to another standard.
C37_IncrementalIndexIsBuildIndex ==
    [][(AddStep /\ hist'.ok) =>
          PairsOf(index'[hist'.t]) = PairsOf(BuildIndex(dict'[hist'.t]))]_vars

\* the same for the calls made on an index that was equal to _build_index of
\* the Dictionary and that add an alias to a standard that already exists
C37_ExistingStandard ==
    [][(/\ AddStep /\ hist'.ok /\ ~hist'.isNew
        /\ PairsOf(index[hist'.t]) = PairsOf(BuildIndex(dict[hist'.t]))) =>
          PairsOf(index'[hist'.t]) = PairsOf(BuildIndex(dict'[hist'.t]))]_vars

(***************************************************************************)
(* The mutating threads alone, under a scheduler that lets every thread     *)
(* that can take a step take one eventually.  The backup directory holds    *)
(* one backup from an earlier run whose content does not parse, so that     *)
(* the reload of a rollback can raise.                                      *)
(***************************************************************************)
BadBackup == [ts |-> 0, text |-> Truncated, mtime |-> 0]

InitLive ==
    LET d0 == [t \in Types |->
                 FreshDisk(IF t = "company"
                           THEN [exists |-> TRUE, text |-> Serialize(JsonKey(t), D_one),
                                 mtime |-> 0]
                           ELSE NoFile)]
        ld == [t \in Types |-> LoadDictionaryWithCache(d0[t], JsonKey(t), 1)]
    IN  /\ dict = [t \in Types |-> ld[t].data]
        /\ index = [t \in Types |-> BuildIndex(ld[t].data)]
        /\ memo = EmptyMemo
        /\ disk = [t \in Types |->
                     IF t = "company" THEN [ld[t].disk EXCEPT !.backups = {BadBackup}]
                     ELSE ld[t].disk]
        /\ clock = 1
        /\ lock = "free"
        /\ th = [w \in Threads |-> IdleThread]
        /\ rd = IdleReader
        /\ hist = NoHist

\* a reload that raises and leaves the with block holding the lock
StepRollbackLoadHolds(w) ==
    /\ th[w].pc = "r_load"
    /\ ~LoadDictionary(disk[th[w].t].file, JsonKey(th[w].t)).ok
    /\ th' = [th EXCEPT ![w] = IdleThread]
    /\ UNCHANGED <<dict, index, memo, disk, clock, lock, rd, hist>>

\* rollback: self._load_dictionary raises (the restored file does not
\* parse); the exception leaves the with block
StepRollbackLoadFails(w) ==
    /\ th[w].pc = "r_load"
    /\ ~LoadDictionary(disk[th[w].t].file, JsonKey(th[w].t)).ok
    /\ Release(w)
    /\ UNCHANGED <<dict, index, memo, disk, clock, rd, hist>>

\* what thread w does once it has called: take the lock, run the statements
\* of the method, leave
LiveStep(w) ==
    \/ \E t \in Types : \E p \in AddPairs(t) : Acquire(w, "add", t, p[1], p[2], << >>, NoBackup)
    \/ \E t \in Types : \E d \in ReplaceDicts(t) :
          Acquire(w, "replace", t, << >>, << >>, d, NoBackup)
    \/ \E t \in Types, ts \in Timestamps : Acquire(w, "rollback", t, << >>, << >>, << >>, ts)
    \/ StepAddEntry(w) \/ StepAppendAlias(w) \/ StepAddIndex(w)
    \/ StepSetDict(w) \/ StepSetIndex(w)
    \/ StepBackup(w) \/ StepTemp(w) \/ StepTempFails(w)
    \/ StepReplace(w) \/ StepReplaceFails(w)
    \/ StepUnlink(w) \/ StepUnlinkFails(w)
    \/ StepRestoreOpen(w) \/ StepRestoreCopy(w) \/ StepRaise(w)
    \/ StepClear(w)
    \/ StepRollbackMissing(w) \/ StepRollbackOpen(w) \/ StepRollbackCopy(w)
    \/ StepRollbackLoad(w) \/ StepRollbackIndex(w) \/ StepRollbackLoadFails(w)

NextLive ==
    \/ \E w \in Threads : Call(w)
    \/ \E w \in Threads : LiveStep(w)

SpecLive ==
    /\ InitLive
    /\ [][NextLive]_vars
    /\ \A w \in Threads : WF_vars(LiveStep(w))

\* C38: the lock is released on every exit path of add_*_mapping, update_*
\* and rollback_to_backup, the paths on which the save or the reload raises
\* included: a thread that is not inside a call does not hold the lock, and
\* every call that waits for the lock, also after a mutation that failed,
\* eventually gets it and finishes.
C38_LockReleasedOnEveryExit ==
    /\ [](\A w \in Threads : th[w].pc \in {"idle", "acquire"} => lock # w)
    /\ \A w \in Threads : (th[w].pc = "acquire") ~> (th[w].pc = "idle" /\ lock # w)

\* the reload of a rollback is about to raise on the restored file, which
\* does not parse, while the other thread waits for the lock
C38_Witness ==
    /\ lock = "w1"
    /\ th["w1"].pc = "r_load"
    /\ ~LoadDictionary(disk["company"].file, JsonKey("company")).ok
    /\ th["w2"].pc = "acquire"

\* C39: whenever no mutation is in progress, normalize(x) returns x itself
\* or a standard of the current in-memory Dictionary of that type, never a
\* standard that the Dictionary does not have, also after a mutation whose
\* save failed.
C39_NormalizeReturnsCurrentStandard ==
    (lock = "free" /\ \A w \in Threads : th[w].pc = "idle") =>
        \A t \in Types, q \in Queries, thr \in Thresholds :
            \/ NormalizeNow(t, q, thr) = q
            \/ NormalizeNow(t, q, thr) \in Standards(dict[t])

(***************************************************************************)
(* A service started on an arbitrary directory, then asked to add mappings  *)
(* and to roll back.  The time of the start is that of InitLoad.            *)
(***************************************************************************)
\* the constructor has returned
Started == hist.kind # "boot" /\ (hist.kind = "start" => hist.ok)

RecoverTimestamps == {SecondOf(1), SecondOf(3)}

NextRecover ==
    \/ Start
    \/ \E t \in Types : \E p \in AddPairs(t) : Started /\ AddMapping(t, p[1], p[2], "none")
    \/ \E t \in Types, ts \in RecoverTimestamps : Started /\ Rollback(t, ts)
    \/ \E t \in Types, ts \in RecoverTimestamps : Started /\ RollbackNotFound(t, ts)

SpecRecover == InitLoad /\ [][NextRecover]_vars

\* the step is a rollback_to_backup that found its backup and then raised
RollbackRaises ==
    /\ hist'.rollbacks # hist.rollbacks
    /\ hist'.kind = "rollback"
    /\ ~hist'.ok

\* C40: a rollback that raises after the backup was found (the content of the
\* backup does not load as a Dictionary) leaves the live file, the in-memory
\* Dictionary, the index and the memo as they were before the call.
C40_FailedRollbackChangesNothing ==
    [][RollbackRaises =>
          /\ disk'[hist'.t].file = disk[hist'.t].file
          /\ dict' = dict /\ index' = index /\ memo' = memo]_vars

\* the same without the live file: what the service holds in memory
C40_MemoryUnchanged ==
    [][RollbackRaises => (dict' = dict /\ index' = index /\ memo' = memo)]_vars
=============================================================================
